---- MODULE Spec2Model ----
(***************************************************************************)
(* A model of the CS2 demo analyzer's event aggregation engine             *)
(* (src/backend/parser.py).  A demo file is decoded by demoparser2 into    *)
(* four tables; CS2DemoParser keeps them in df_kills, df_damages,          *)
(* df_rounds and df_ticks and answers queries over them.                   *)
(*                                                                         *)
(* Tables (pandas DataFrames) are records [loaded, cols, rows]: loaded is  *)
(* FALSE for Python's None, cols holds the optional columns the frame      *)
(* carries, rows is the sequence of its rows.  Floating point cells are    *)
(* records [kind, num, den]: a finite value num/den in lowest terms, NaN   *)
(* or +inf, so that pandas' 0/0 = NaN and x/0 = inf are kept apart.        *)
(***************************************************************************)
EXTENDS Integers, Sequences, FiniteSets, TLC

VARIABLES
    demo,           \* the decoded content of the demo file (input, never written)
    df_kills,       \* CS2DemoParser.df_kills
    df_damages,     \* CS2DemoParser.df_damages
    df_rounds,      \* CS2DemoParser.df_rounds
    df_ticks,       \* CS2DemoParser.df_ticks
    round_mapping,  \* the round_mapping list built by _assign_rounds_to_kills
    calculator,     \* the PlayerRatingCalculator object, once constructed
    rating_input,   \* the stat table and multi-kill dictionary handed to the calculator
    matches,        \* the stat tables of the matches to rate, and how many have been rated
    session_state,  \* st.session_state of the application
    uploaded_file,  \* what the sidebar's file uploader held on the last rerun
    result          \* the last call and what it returned or raised

vars == <<demo, df_kills, df_damages, df_rounds, df_ticks, round_mapping, calculator,
          rating_input, matches, session_state, uploaded_file, result>>

----------------------------------------------------------------------------
(* Bounds of the model *)

StatsMaxKills == 2
RoundsMaxMarkers == 3
RoundsMaxKills == 2
MultiMaxKills == 3
HeatMaxKills == 2
HeatMaxSamples == 2
RatingMaxPlayers == 3
RatingMaxMultiKills == 3
TrendMaxKills == 4

----------------------------------------------------------------------------
(* Values *)

NoName == "<null>"
PlayerNames == {"A", "B"}
\* rows are listed by name; no property depends on the row order of pd.concat
NameOrder == <<"A", "B">>

NoTable == [loaded |-> FALSE, cols |-> {}, rows |-> <<>>]

\* no PlayerRatingCalculator has been constructed
NoCalculator ==
    [constructed |-> FALSE, k_factor |-> [kd_weight |-> 0, hs_weight |-> 0, adr_weight |-> 0],
     base_rating |-> 0, player_ratings |-> <<>>]

\* the rating engine is not in use
NoRating == calculator = NoCalculator /\ rating_input = [stats |-> <<>>, multikills |-> <<>>]

\* session values that are None
NoFile == [present |-> FALSE, name |-> "", raises |-> "", bad |-> 0, kills |-> <<>>]
NoParser ==
    [set |-> FALSE, source |-> NoFile, df_kills |-> NoTable, df_damages |-> NoTable,
     df_rounds |-> NoTable, df_ticks |-> NoTable]
NoStats == [set |-> FALSE, rows |-> <<>>]

\* initialize_session_state on a new session
InitialSession ==
    [parser |-> NoParser, stats |-> NoStats, rated_stats |-> NoStats, demo_parsed |-> FALSE]

\* the application and the match-by-match rating are not in use
NoSession ==
    /\ matches = [tables |-> <<>>, rated |-> 0]
    /\ session_state = InitialSession
    /\ uploaded_file = NoFile

Table(cols, rows) == [loaded |-> TRUE, cols |-> cols, rows |-> rows]

SeqsUpTo(S, n) == UNION {[1..k -> S] : k \in 0..n}

RECURSIVE GCD(_, _)
GCD(a, b) == IF b = 0 THEN a ELSE GCD(b, a % b)

NaN == [kind |-> "nan", num |-> 0, den |-> 0]
Inf == [kind |-> "inf", num |-> 1, den |-> 0]
Frac(n, d) == LET g == GCD(n, d) IN [kind |-> "num", num |-> n \div g, den |-> d \div g]
Flt(n) == [kind |-> "num", num |-> n, den |-> 1]
IsNum(x) == x.kind = "num"

\* Series / Series (or scalar) on non-negative float cells
FloatDiv(a, b) ==
    IF ~IsNum(a) \/ ~IsNum(b) THEN NaN
    ELSE IF b.num = 0 THEN (IF a.num = 0 THEN NaN ELSE Inf)
    ELSE Frac(a.num * b.den, a.den * b.num)

FloatMul(a, k) ==
    IF IsNum(a) THEN Frac(a.num * k, a.den) ELSE a

FillNa0(x) == IF x.kind = "nan" THEN Flt(0) ELSE x

----------------------------------------------------------------------------
(* Round segmentation: CS2DemoParser._assign_rounds_to_kills *)

RECURSIVE InsertByTick(_, _)
InsertByTick(row, sorted) ==
    IF sorted = <<>> THEN <<row>>
    ELSE IF row.tick < Head(sorted).tick THEN <<row>> \o sorted
    ELSE <<Head(sorted)>> \o InsertByTick(row, Tail(sorted))

\* a slip: the round ends taken in file order
Unsorted(rows) == rows

RECURSIVE SortByTick(_)
SortByTick(rows) ==
    IF rows = <<>> THEN <<>>
    ELSE InsertByTick(rows[Len(rows)], SortByTick(SubSeq(rows, 1, Len(rows) - 1)))

RECURSIVE BuildRoundMapping(_, _)
BuildRoundMapping(round_ends, mapping) ==
    IF round_ends = <<>> THEN mapping
    ELSE LET current_round == Len(mapping) + 1
             end == Head(round_ends).tick
         IN BuildRoundMapping(Tail(round_ends),
                Append(mapping,
                    [round |-> current_round,
                     start_tick |-> IF current_round = 1 THEN end
                                    ELSE mapping[Len(mapping)].end_tick,
                     end_tick |-> end]))

RoundMapping(rounds) == BuildRoundMapping(SortByTick(rounds.rows), <<>>)

\* a slip: no default, the lookup falls through with round 0
RECURSIVE find_round_or_zero(_, _)
find_round_or_zero(tick, round_df) ==
    IF round_df = <<>> THEN 0
    ELSE IF Head(round_df).start_tick <= tick /\ tick <= Head(round_df).end_tick
         THEN Head(round_df).round
         ELSE find_round_or_zero(tick, Tail(round_df))

\* a slip: the rows are searched from the last, so the highest containing round wins
RECURSIVE find_round_last(_, _)
find_round_last(tick, round_df) ==
    IF round_df = <<>> THEN 1
    ELSE LET last == round_df[Len(round_df)]
         IN IF last.start_tick <= tick /\ tick <= last.end_tick
            THEN last.round
            ELSE find_round_last(tick, SubSeq(round_df, 1, Len(round_df) - 1))

RECURSIVE find_round(_, _)
find_round(tick, round_df) ==
    IF round_df = <<>> THEN 1
    ELSE IF Head(round_df).start_tick <= tick /\ tick <= Head(round_df).end_tick
         THEN Head(round_df).round
         ELSE find_round(tick, Tail(round_df))

AssignRounds(kills, rounds) ==
    LET round_df == RoundMapping(rounds)
    IN Table(kills.cols \cup {"round"},
             [i \in DOMAIN kills.rows |->
                 [kills.rows[i] EXCEPT !.round = find_round(kills.rows[i].tick, round_df)]])

----------------------------------------------------------------------------
(* CS2DemoParser.__init__ and parse_demo *)

NoResult == [op |-> "init", args |-> <<>>, raised |-> "", value |-> <<>>]
Returned(op, args, value) == [op |-> op, args |-> args, raised |-> "", value |-> value]
Raised(op, args, exc) == [op |-> op, args |-> args, raised |-> exc, value |-> <<>>]

Constructed ==
    /\ df_kills = NoTable
    /\ df_damages = NoTable
    /\ df_rounds = NoTable
    /\ df_ticks = NoTable
    /\ round_mapping = <<>>
    /\ result = NoResult

\* demo.bad is the extraction call of parse_demo at which demoparser2 raises
\* on this file (0: the file decodes).
NumExtractions == 4

ParseDemo ==
    LET bad == demo.bad
        kills == IF bad = 1 THEN df_kills ELSE demo.kills
        damages == IF bad \in 1..2 THEN df_damages ELSE demo.damages
        rounds == IF bad \in 1..3 THEN df_rounds ELSE demo.rounds
        ticks == IF bad \in 1..4 THEN df_ticks ELSE demo.ticks
        assign == bad = 0 /\ kills.loaded /\ rounds.loaded
    IN /\ df_kills' = IF assign THEN AssignRounds(kills, rounds) ELSE kills
       /\ df_damages' = damages
       /\ df_rounds' = rounds
       /\ df_ticks' = ticks
       /\ round_mapping' = IF assign THEN RoundMapping(rounds) ELSE round_mapping
       /\ result' = Returned("parse_demo", <<>>, bad = 0)
       /\ UNCHANGED <<demo, calculator, rating_input, matches, session_state, uploaded_file>>

----------------------------------------------------------------------------
(* CS2DemoParser.get_player_statistics *)

RowsWhere(rows, col, name) == {i \in DOMAIN rows : rows[i][col] = name}

\* the keys of groupby(col): pandas drops null keys
GroupKeys(rows, col) == {rows[i][col] : i \in DOMAIN rows} \ {NoName}

\* a slip: the number of damage events instead of their sum
SumDamageAsCount(rows, name) == Cardinality(RowsWhere(rows, "attacker_name", name))

RECURSIVE SumDamage(_, _)
SumDamage(rows, name) ==
    IF rows = <<>> THEN 0
    ELSE (IF Head(rows).attacker_name = name THEN Head(rows).dmg_health ELSE 0)
         + SumDamage(Tail(rows), name)

\* one cell of pd.concat(..., axis=1): NaN where the series has no such key
Cell(keys, name, value) == IF name \in keys THEN Flt(value) ELSE NaN

\* a slip: the division without the zero-death branch
KdRatioUnguarded(kills, deaths) == FloatDiv(kills, deaths)

KdRatio(kills, deaths) ==
    IF IsNum(deaths) /\ deaths.num > 0 THEN FloatDiv(kills, deaths) ELSE kills

\* a slip: the percentage without fillna(0)
HsPercentageNoFill(headshots, kills) == FloatMul(FloatDiv(headshots, kills), 100)

HsPercentage(headshots, kills) == FillNa0(FloatMul(FloatDiv(headshots, kills), 100))

TotalRounds == IF df_rounds.loaded THEN Len(df_rounds.rows) ELSE 1

Adr(total_damage, total_rounds) == FloatDiv(total_damage, Flt(total_rounds))

AssistRows(kills) ==
    IF "assister_name" \in kills.cols THEN kills.rows ELSE <<>>

\* a slip: the damage series joined on the kill and death keys only
StatIndexKillsOnly(kills, damages) ==
    GroupKeys(kills.rows, "attacker_name") \cup GroupKeys(kills.rows, "user_name")
        \cup GroupKeys(AssistRows(kills), "assister_name")

StatIndex(kills, damages) ==
    GroupKeys(kills.rows, "attacker_name") \cup GroupKeys(kills.rows, "user_name")
        \cup GroupKeys(AssistRows(kills), "assister_name")
        \cup GroupKeys(damages.rows, "attacker_name")

StatRow(name, kills, damages, total_rounds) ==
    LET k == FillNa0(Cell(GroupKeys(kills.rows, "attacker_name"), name,
                 Cardinality(RowsWhere(kills.rows, "attacker_name", name))))
        h == FillNa0(Cell(GroupKeys(kills.rows, "attacker_name"), name,
                 Cardinality({i \in RowsWhere(kills.rows, "attacker_name", name) :
                                 kills.rows[i].headshot})))
        d == FillNa0(Cell(GroupKeys(kills.rows, "user_name"), name,
                 Cardinality(RowsWhere(kills.rows, "user_name", name))))
        a == FillNa0(Cell(GroupKeys(AssistRows(kills), "assister_name"), name,
                 Cardinality(RowsWhere(AssistRows(kills), "assister_name", name))))
        t == FillNa0(Cell(GroupKeys(damages.rows, "attacker_name"), name,
                 SumDamage(damages.rows, name)))
    IN [player_name |-> name, kills |-> k, headshots |-> h, deaths |-> d,
        assists |-> a, total_damage |-> t,
        kd_ratio |-> KdRatio(k, d),
        hs_percentage |-> HsPercentage(h, k),
        adr |-> Adr(t, total_rounds)]

RECURSIVE StatRows(_, _, _, _, _)
StatRows(order, index, kills, damages, total_rounds) ==
    IF order = <<>> THEN <<>>
    ELSE (IF Head(order) \in index
          THEN <<StatRow(Head(order), kills, damages, total_rounds)>> ELSE <<>>)
         \o StatRows(Tail(order), index, kills, damages, total_rounds)

PlayerStatistics(kills, damages, total_rounds) ==
    StatRows(NameOrder, StatIndex(kills, damages), kills, damages, total_rounds)

\* With no player at all, stats.apply(axis=1) probes the lambda with an all-NaN
\* row, gets a scalar back and yields an empty column: the result is an empty
\* table, not an error.
GetPlayerStatistics ==
    /\ result' =
           IF ~df_kills.loaded \/ ~df_damages.loaded
           THEN Raised("get_player_statistics", <<>>, "ValueError")
           ELSE Returned("get_player_statistics", <<>>,
                    PlayerStatistics(df_kills, df_damages, TotalRounds))
    /\ UNCHANGED <<demo, df_kills, df_damages, df_rounds, df_ticks, round_mapping,
                   calculator, rating_input, matches, session_state, uploaded_file>>

----------------------------------------------------------------------------
(* CS2DemoParser.get_multi_kills *)

\* the kills of one (attacker_name, round) group
KillGroup(rows, player, round_num) ==
    {i \in DOMAIN rows : rows[i].attacker_name = player /\ rows[i].round = round_num}

\* a slip: single kills kept by the filter
IsMultiKillFromOne(kill_count) == kill_count >= 1

IsMultiKill(kill_count) == kill_count >= 2

\* a slip: the last kill tick of the group
MinTickAsMax(rows, group) ==
    CHOOSE t \in {rows[i].tick : i \in group} : \A i \in group : rows[i].tick <= t

MinTick(rows, group) ==
    CHOOSE t \in {rows[i].tick : i \in group} : \A i \in group : t <= rows[i].tick

MaxRoundOf(rows) ==
    IF rows = <<>> THEN 0
    ELSE CHOOSE r \in {rows[i].round : i \in DOMAIN rows} :
            \A i \in DOMAIN rows : rows[i].round <= r

\* the records of one player, in the order groupby yields the rounds
RECURSIVE MultiKillRecords(_, _, _, _)
MultiKillRecords(rows, player, round_num, last_round) ==
    IF round_num > last_round THEN <<>>
    ELSE LET group == KillGroup(rows, player, round_num)
         IN (IF IsMultiKill(Cardinality(group))
             THEN <<[round_num |-> round_num, kill_count |-> Cardinality(group),
                     tick |-> MinTick(rows, group)]>>
             ELSE <<>>)
            \o MultiKillRecords(rows, player, round_num + 1, last_round)

MultiKills(kills) ==
    LET rows == kills.rows
        all == [p \in GroupKeys(rows, "attacker_name") |->
                   MultiKillRecords(rows, p, 1, MaxRoundOf(rows))]
    IN [p \in {q \in DOMAIN all : all[q] # <<>>} |-> all[p]]

GetMultiKills ==
    /\ result' =
        IF ~df_kills.loaded \/ "round" \notin df_kills.cols
        THEN Returned("get_multi_kills", <<>>, <<>>)
        ELSE Returned("get_multi_kills", <<>>, MultiKills(df_kills))
    /\ UNCHANGED <<demo, df_kills, df_damages, df_rounds, df_ticks, round_mapping,
                   calculator, rating_input, matches, session_state, uploaded_file>>

----------------------------------------------------------------------------
(* CS2DemoParser.get_positions_for_heatmap *)

Tolerance == 32

\* any string other than 'kills' and 'deaths' takes the else branch
EventTypes == {"kills", "deaths", "assists"}

Abs(n) == IF n < 0 THEN -n ELSE n

\* the ticks of the player's kills or deaths, in table order
RECURSIVE EventTicks(_, _, _)
EventTicks(rows, col, player_name) ==
    IF rows = <<>> THEN <<>>
    ELSE (IF Head(rows)[col] = player_name THEN <<Head(rows).tick>> ELSE <<>>)
         \o EventTicks(Tail(rows), col, player_name)

\* a slip: the first row of the sample table taken, whatever its tick
FirstIdx(samples, event_tick) == 1

\* (df_ticks['tick'] - event_tick).abs().idxmin(): the first closest row
ClosestIdx(samples, event_tick) ==
    CHOOSE i \in DOMAIN samples :
        /\ \A j \in DOMAIN samples :
              Abs(samples[i].tick - event_tick) <= Abs(samples[j].tick - event_tick)
        /\ \A j \in DOMAIN samples :
              j < i => Abs(samples[j].tick - event_tick) > Abs(samples[i].tick - event_tick)

\* a slip: the closest sample taken however far away it is
AnyDistance(sample_tick, event_tick) == TRUE

WithinTolerance(sample_tick, event_tick) == Abs(sample_tick - event_tick) <= Tolerance

RECURSIVE Positions(_, _)
Positions(samples, event_ticks) ==
    IF event_ticks = <<>> THEN <<>>
    ELSE LET closest_tick == samples[ClosestIdx(samples, Head(event_ticks))]
         IN (IF WithinTolerance(closest_tick.tick, Head(event_ticks))
             THEN <<[x |-> closest_tick.X, y |-> closest_tick.Y, z |-> closest_tick.Z]>>
             ELSE <<>>)
            \o Positions(samples, Tail(event_ticks))

PositionsForHeatmap(player_name, event_type) ==
    IF ~df_ticks.loaded \/ df_ticks.rows = <<>> THEN <<>>
    ELSE IF ~df_kills.loaded \/ df_kills.rows = <<>> THEN <<>>
    ELSE IF event_type = "kills"
         THEN Positions(df_ticks.rows, EventTicks(df_kills.rows, "attacker_name", player_name))
    ELSE IF event_type = "deaths"
         THEN Positions(df_ticks.rows, EventTicks(df_kills.rows, "user_name", player_name))
    ELSE <<>>

GetPositionsForHeatmap ==
    /\ \E player_name \in PlayerNames, event_type \in EventTypes :
        result' = Returned("get_positions_for_heatmap", <<player_name, event_type>>,
                           PositionsForHeatmap(player_name, event_type))
    /\ UNCHANGED <<demo, df_kills, df_damages, df_rounds, df_ticks, round_mapping,
                   calculator, rating_input, matches, session_state, uploaded_file>>

----------------------------------------------------------------------------
(* Demo files *)

KillCols == {"assister_name"}

Demo(kills, damages, rounds, ticks, bad) ==
    [kills |-> Table(KillCols, kills), damages |-> Table({}, damages),
     rounds |-> Table({}, rounds), ticks |-> Table({}, ticks), bad |-> bad]

Kill(tick, attacker, victim, assister, headshot) ==
    [tick |-> tick, attacker_name |-> attacker, user_name |-> victim,
     assister_name |-> assister, headshot |-> headshot, round |-> 0]

Damage(attacker, dmg) == [attacker_name |-> attacker, dmg_health |-> dmg]

RoundEnd(tick) == [tick |-> tick]

\* A kill with no attacker (fall, bomb) is never a headshot, and nobody
\* assists their own kill.
StatsKills ==
    {k \in {Kill(100, a, v, s, h) : a \in PlayerNames \cup {NoName}, v \in PlayerNames,
                                    s \in PlayerNames \cup {NoName}, h \in BOOLEAN} :
        /\ k.attacker_name = NoName => ~k.headshot
        /\ k.assister_name # NoName => k.assister_name # k.attacker_name}

StatsDamageTables ==
    {<<>>, <<Damage("A", 40)>>, <<Damage("A", 40), Damage("A", 60)>>, <<Damage("B", 60)>>}

TwoRounds == <<RoundEnd(200), RoundEnd(400)>>

\* <<round-end table, failing extraction>>
StatsRoundCases == {<<(<<>>), 0>>, <<TwoRounds, 0>>, <<TwoRounds, 3>>}

StatsDemos ==
    {Demo(k, d, rb[1], <<>>, rb[2]) :
        k \in SeqsUpTo(StatsKills, StatsMaxKills),
        d \in StatsDamageTables,
        rb \in StatsRoundCases}

InitStats == demo \in StatsDemos /\ Constructed /\ NoRating /\ NoSession

NextStats == ParseDemo \/ GetPlayerStatistics

SpecStats == InitStats /\ [][NextStats]_vars

\* Round segmentation: any order of round ends, kills before, on, between
\* and after them, and a file that fails at any extraction.
RoundsMarkerTicks == {10, 20, 30}
RoundsKillTicks == {5, 10, 15, 20, 35}

RoundsDemos ==
    {Demo(k, <<>>, r, <<>>, b) :
        k \in SeqsUpTo({Kill(t, "A", "B", NoName, FALSE) : t \in RoundsKillTicks},
                       RoundsMaxKills),
        r \in SeqsUpTo({RoundEnd(t) : t \in RoundsMarkerTicks}, RoundsMaxMarkers),
        b \in 0..NumExtractions}

InitRounds == demo \in RoundsDemos /\ Constructed /\ NoRating /\ NoSession

NextRounds == ParseDemo

SpecRounds == InitRounds /\ [][NextRounds]_vars

\* Multi-kills: kills of A, B or nobody at ticks that fall in round 1 or 2.
MultiKillTicks == {5, 15, 25}
MultiKillRows ==
    {Kill(t, a, IF a = "B" THEN "A" ELSE "B", NoName, FALSE) :
        t \in MultiKillTicks, a \in PlayerNames \cup {NoName}}
MultiRoundTables == {<<>>, <<RoundEnd(10)>>, <<RoundEnd(10), RoundEnd(20)>>}

MultiDemos ==
    {Demo(k, <<>>, r, <<>>, 0) :
        k \in SeqsUpTo(MultiKillRows, MultiMaxKills), r \in MultiRoundTables}

InitMulti == demo \in MultiDemos /\ Constructed /\ NoRating /\ NoSession

NextMulti == ParseDemo \/ GetMultiKills

SpecMulti == InitMulti /\ [][NextMulti]_vars

\* Position correlation: samples of both players; a sample stands where its
\* player is at that tick (X follows the tick, Y tells the players apart).
Sample(tick, name) ==
    [tick |-> tick, name |-> name, X |-> tick, Y |-> IF name = "A" THEN 1 ELSE 2, Z |-> 0]

HeatSampleTicks == {0, 64, 104}
HeatKillTicks == {32, 137}
HeatKillRows ==
    {Kill(t, a, IF a = "B" THEN "A" ELSE "B", NoName, FALSE) :
        t \in HeatKillTicks, a \in PlayerNames}

HeatDemos ==
    {Demo(k, <<>>, <<>>, t, 0) :
        k \in SeqsUpTo(HeatKillRows, HeatMaxKills),
        t \in SeqsUpTo({Sample(tk, n) : tk \in HeatSampleTicks, n \in PlayerNames},
                       HeatMaxSamples)}

InitHeat == demo \in HeatDemos /\ Constructed /\ NoRating /\ NoSession

NextHeat == ParseDemo \/ GetPositionsForHeatmap

SpecHeat == InitHeat /\ [][NextHeat]_vars

----------------------------------------------------------------------------
(* Properties of get_player_statistics *)

StatsReturned == result.op = "get_player_statistics" /\ result.raised = ""

KillEventsBy(p) == Cardinality({i \in DOMAIN df_kills.rows : df_kills.rows[i].attacker_name = p})
HeadshotEventsBy(p) ==
    Cardinality({i \in DOMAIN df_kills.rows :
                    df_kills.rows[i].attacker_name = p /\ df_kills.rows[i].headshot})
DeathEventsOf(p) == Cardinality({i \in DOMAIN df_kills.rows : df_kills.rows[i].user_name = p})
AssistEventsBy(p) ==
    Cardinality({i \in DOMAIN df_kills.rows : df_kills.rows[i].assister_name = p})
RECURSIVE DamageUpTo(_, _)
DamageUpTo(n, p) ==
    IF n = 0 THEN 0
    ELSE DamageUpTo(n - 1, p)
         + (IF df_damages.rows[n].attacker_name = p THEN df_damages.rows[n].dmg_health ELSE 0)
DamageDealtBy(p) == DamageUpTo(Len(df_damages.rows), p)

\* x = a / b for finite cells, b > 0
IsQuotient(x, a, b) ==
    IsNum(x) /\ IsNum(a) /\ IsNum(b) /\ x.num * a.den * b.num = a.num * b.den * x.den

\* C1: in every row of get_player_statistics kd_ratio is kills / deaths when
\* deaths > 0 and kills when deaths = 0, so kd_ratio >= 0.
C1_KdRatio ==
    StatsReturned =>
        \A i \in DOMAIN result.value :
            LET row == result.value[i]
            IN /\ IsNum(row.kd_ratio) /\ row.kd_ratio.num >= 0
               /\ IsNum(row.kills) /\ IsNum(row.deaths)
               /\ row.deaths.num > 0 => IsQuotient(row.kd_ratio, row.kills, row.deaths)
               /\ row.deaths.num = 0 => row.kd_ratio = row.kills

C1_Witness ==
    /\ StatsReturned
    /\ \E i, j \in DOMAIN result.value :
        /\ result.value[i].deaths = Flt(0) /\ result.value[i].kills = Flt(2)
        /\ result.value[i].kd_ratio = Flt(2)
        /\ result.value[j].deaths = Flt(2) /\ result.value[j].kd_ratio = Flt(0)

\* C2: in every row 0 <= hs_percentage <= 100, and hs_percentage is 0, not
\* NaN, when kills = 0 (a player who was only victim, assister or damage dealer).
C2_HsPercentage ==
    StatsReturned =>
        \A i \in DOMAIN result.value :
            LET row == result.value[i]
            IN /\ IsNum(row.hs_percentage)
               /\ 0 <= row.hs_percentage.num
               /\ row.hs_percentage.num <= 100 * row.hs_percentage.den
               /\ row.kills = Flt(0) => row.hs_percentage = Flt(0)

C2_Witness ==
    /\ StatsReturned
    /\ \E i, j \in DOMAIN result.value :
        /\ result.value[i].kills = Flt(0) /\ result.value[i].deaths = Flt(2)
        /\ result.value[i].hs_percentage = Flt(0)
        /\ result.value[j].kills = Flt(2) /\ result.value[j].hs_percentage = Flt(50)

\* C3: every row's kills, headshots, deaths and assists are the numbers of
\* kill events with that player as attacker, as attacker with a headshot, as
\* victim and as assister, and total_damage is the sum of the damage of the
\* damage events that player dealt.
C3_Counts ==
    StatsReturned =>
        \A i \in DOMAIN result.value :
            LET row == result.value[i]
                p == row.player_name
            IN /\ row.kills = Flt(KillEventsBy(p))
               /\ row.headshots = Flt(HeadshotEventsBy(p))
               /\ row.deaths = Flt(DeathEventsOf(p))
               /\ row.assists = Flt(AssistEventsBy(p))
               /\ row.total_damage = Flt(DamageDealtBy(p))

\* the scenario of the specification, with two kills: damage 40 + 60 over 2 rounds
C3_Witness ==
    /\ StatsReturned
    /\ Len(df_damages.rows) = 2 /\ df_rounds.loaded /\ Len(df_rounds.rows) = 2
    /\ \E i \in DOMAIN result.value :
        /\ result.value[i].player_name = "A"
        /\ result.value[i].kills = Flt(2) /\ result.value[i].deaths = Flt(0)
        /\ result.value[i].kd_ratio = Flt(2)
        /\ result.value[i].total_damage = Flt(100) /\ result.value[i].adr = Flt(50)

KillAttackers == {df_kills.rows[i].attacker_name : i \in DOMAIN df_kills.rows} \ {NoName}
KillVictims == {df_kills.rows[i].user_name : i \in DOMAIN df_kills.rows} \ {NoName}
KillAssisters == {df_kills.rows[i].assister_name : i \in DOMAIN df_kills.rows} \ {NoName}
DamageAttackers == {df_damages.rows[i].attacker_name : i \in DOMAIN df_damages.rows} \ {NoName}

RowNames == {result.value[i].player_name : i \in DOMAIN result.value}
NoDuplicateRows ==
    \A i, j \in DOMAIN result.value :
        result.value[i].player_name = result.value[j].player_name => i = j
OnlyDied(p) == p \in KillVictims \ (KillAttackers \cup KillAssisters \cup DamageAttackers)
ZeroOffence(row) ==
    /\ row.kills = Flt(0) /\ row.headshots = Flt(0)
    /\ row.assists = Flt(0) /\ row.total_damage = Flt(0)
CountsDefined(row) ==
    /\ IsNum(row.kills) /\ IsNum(row.headshots) /\ IsNum(row.deaths)
    /\ IsNum(row.assists) /\ IsNum(row.total_damage)
    /\ IsNum(row.kd_ratio) /\ IsNum(row.hs_percentage)

\* C4 as stated: exactly one row per name that is attacker or victim of a
\* kill event and no other row; a player who only died has zero kills,
\* headshots, assists and total_damage; no field of a row is missing.
C4_AsStated ==
    StatsReturned =>
        /\ RowNames = KillAttackers \cup KillVictims
        /\ NoDuplicateRows
        /\ \A i \in DOMAIN result.value :
            /\ OnlyDied(result.value[i].player_name) => ZeroOffence(result.value[i])
            /\ CountsDefined(result.value[i]) /\ IsNum(result.value[i].adr)

\* C4 amended: exactly one row per name that is attacker, victim or assister
\* of a kill event or attacker of a damage event; a player who only died has
\* zero kills, headshots, assists and total_damage; kills, headshots, deaths,
\* assists, total_damage, kd_ratio and hs_percentage are never missing.
C4_UnionOfRoles ==
    StatsReturned =>
        /\ RowNames = KillAttackers \cup KillVictims \cup KillAssisters \cup DamageAttackers
        /\ NoDuplicateRows
        /\ \A i \in DOMAIN result.value :
            /\ OnlyDied(result.value[i].player_name) => ZeroOffence(result.value[i])
            /\ CountsDefined(result.value[i])

\* a row for a player who only dealt damage, beside one who only died
C4_Witness ==
    /\ StatsReturned
    /\ \E i, j \in DOMAIN result.value :
        /\ result.value[i].player_name \in DamageAttackers \ (KillAttackers \cup KillVictims)
        /\ OnlyDied(result.value[j].player_name)
        /\ ZeroOffence(result.value[j])

MarkerCount == IF df_rounds.loaded THEN Len(df_rounds.rows) ELSE 0

\* C5: adr = total_damage / max(1, total_rounds), total_rounds the number of
\* round-end markers; with an empty round-end table adr equals total_damage.
C5_AdrGuarded ==
    StatsReturned =>
        \A i \in DOMAIN result.value :
            result.value[i].adr =
                FloatDiv(result.value[i].total_damage,
                         Flt(IF MarkerCount > 1 THEN MarkerCount ELSE 1))

----------------------------------------------------------------------------
(* Properties of round segmentation *)

RoundsAssigned == df_kills.loaded /\ df_rounds.loaded /\ "round" \in df_kills.cols

TicksOf(rows, t) == Cardinality({i \in DOMAIN rows : rows[i].tick = t})
EndsOf(mapping, t) == Cardinality({i \in DOMAIN mapping : mapping[i].end_tick = t})

\* indices 1..n in ascending tick order, round i ending at the i-th smallest
\* marker tick and, for i > 1, starting where round i-1 ends
SegmentedInOrder(mapping, markers) ==
    /\ Len(mapping) = Len(markers)
    /\ \A i \in DOMAIN mapping : mapping[i].round = i
    /\ \A i, j \in DOMAIN mapping : i < j => mapping[i].end_tick <= mapping[j].end_tick
    /\ \A i \in DOMAIN markers :
          EndsOf(mapping, markers[i].tick) = TicksOf(markers, markers[i].tick)
    /\ \A i \in DOMAIN mapping : i > 1 => mapping[i].start_tick = mapping[i - 1].end_tick

InRange(tick, interval) == interval.start_tick <= tick /\ tick <= interval.end_tick

MappingTicks(mapping) ==
    {mapping[i].start_tick : i \in DOMAIN mapping} \cup {mapping[i].end_tick : i \in DOMAIN mapping}

\* C6 as stated: the round mapping has indices 1..n in ascending tick order,
\* round i ends at the i-th smallest marker tick and starts where round i-1
\* ends, and no tick lies in the [start_tick, end_tick] range of two rounds.
C6_AsStated ==
    RoundsAssigned =>
        /\ SegmentedInOrder(round_mapping, df_rounds.rows)
        /\ \A i, j \in DOMAIN round_mapping :
              i # j => \A t \in MappingTicks(round_mapping) :
                          ~(InRange(t, round_mapping[i]) /\ InRange(t, round_mapping[j]))

\* C6 amended: as above, but the ranges of two different rounds share at
\* most one tick, the tick at which the earlier round ends and the later one
\* starts; consecutive rounds always share that boundary tick.
C6_BoundaryShared ==
    RoundsAssigned =>
        /\ SegmentedInOrder(round_mapping, df_rounds.rows)
        /\ \A i \in DOMAIN round_mapping :
              round_mapping[i].start_tick <= round_mapping[i].end_tick
        /\ \A i, j \in DOMAIN round_mapping :
              i < j => round_mapping[i].end_tick <= round_mapping[j].start_tick
        /\ \A i \in DOMAIN round_mapping :
              i > 1 => InRange(round_mapping[i - 1].end_tick, round_mapping[i])

\* three round ends given out of tick order
C6_Witness ==
    /\ RoundsAssigned
    /\ Len(round_mapping) = 3
    /\ df_rounds.rows[1].tick > df_rounds.rows[2].tick
    /\ round_mapping[1].end_tick < round_mapping[2].end_tick
    /\ round_mapping[2].end_tick < round_mapping[3].end_tick

\* C7: after round assignment every kill of the file is kept and carries a
\* round index: that of a round interval containing its tick, and 1 when no
\* interval contains it; assignment succeeds on every file that decodes.
C7_EveryKillHasRound ==
    /\ RoundsAssigned =>
        /\ Len(df_kills.rows) = Len(demo.kills.rows)
        /\ \A i \in DOMAIN df_kills.rows :
            LET kill == df_kills.rows[i]
                containing == {r \in DOMAIN round_mapping : InRange(kill.tick, round_mapping[r])}
            IN /\ kill = [demo.kills.rows[i] EXCEPT !.round = kill.round]
               /\ containing # {} => kill.round \in containing
               /\ containing = {} => kill.round = 1
    /\ (result.op = "parse_demo" /\ demo.bad = 0) => (result.value /\ RoundsAssigned)

\* one kill inside round 2 and one after the last round end
C7_Witness ==
    /\ RoundsAssigned
    /\ Len(round_mapping) >= 2
    /\ \E i, j \in DOMAIN df_kills.rows :
        /\ df_kills.rows[i].round = 2
        /\ \A r \in DOMAIN round_mapping : ~InRange(df_kills.rows[j].tick, round_mapping[r])
        /\ df_kills.rows[j].tick > round_mapping[Len(round_mapping)].end_tick
        /\ df_kills.rows[j].round = 1

----------------------------------------------------------------------------
(* Properties of get_multi_kills *)

MultiKillsReturned == result.op = "get_multi_kills" /\ RoundsAssigned

KillsOfIn(p, r) ==
    {i \in DOMAIN df_kills.rows :
        df_kills.rows[i].attacker_name = p /\ df_kills.rows[i].round = r}

RoundsPlayed == {df_kills.rows[i].round : i \in DOMAIN df_kills.rows}

\* C8: get_multi_kills reports at most one record per (player, round) and
\* never a record with kill_count < 2.
C8_OnePerPlayerRound ==
    MultiKillsReturned =>
        \A p \in DOMAIN result.value :
            /\ \A i, j \in DOMAIN result.value[p] :
                  result.value[p][i].round_num = result.value[p][j].round_num => i = j
            /\ \A i \in DOMAIN result.value[p] : result.value[p][i].kill_count >= 2

\* a multi-kill reported beside a single kill of a round that is not
C8_Witness ==
    /\ MultiKillsReturned
    /\ DOMAIN result.value # {}
    /\ \E p \in PlayerNames, r \in RoundsPlayed :
          Cardinality(KillsOfIn(p, r)) = 1 /\ p \notin DOMAIN result.value

\* C9: a record for (p, r) is reported exactly when p is the attacker of at
\* least 2 kills of round r; its kill_count is the number of those kills and
\* its tick the smallest of their ticks.
C9_ExactlyTheMultiKills ==
    MultiKillsReturned =>
        /\ \A p \in DOMAIN result.value : p # NoName /\ result.value[p] # <<>>
        /\ \A p \in DOMAIN result.value : \A i \in DOMAIN result.value[p] :
            LET rec == result.value[p][i]
                group == KillsOfIn(p, rec.round_num)
            IN /\ Cardinality(group) >= 2
               /\ rec.kill_count = Cardinality(group)
               /\ \E k \in group : df_kills.rows[k].tick = rec.tick
               /\ \A k \in group : rec.tick <= df_kills.rows[k].tick
        /\ \A p \in PlayerNames, r \in RoundsPlayed :
            Cardinality(KillsOfIn(p, r)) >= 2 =>
                /\ p \in DOMAIN result.value
                /\ \E i \in DOMAIN result.value[p] : result.value[p][i].round_num = r

\* a triple kill whose first kill is not the first row of the group
C9_Witness ==
    /\ MultiKillsReturned
    /\ \E p \in DOMAIN result.value : \E i \in DOMAIN result.value[p] :
        LET rec == result.value[p][i]
        IN /\ rec.kill_count = 3
           /\ \E k \in KillsOfIn(p, rec.round_num) : df_kills.rows[k].tick > rec.tick

----------------------------------------------------------------------------
(* Properties of get_positions_for_heatmap *)

HeatmapReturned == result.op = "get_positions_for_heatmap" /\ df_kills.loaded

\* the ticks of the kill or death events the call was made for
QueriedTicks ==
    {df_kills.rows[i].tick : i \in
        {k \in DOMAIN df_kills.rows :
            \/ result.args[2] = "kills" /\ df_kills.rows[k].attacker_name = result.args[1]
            \/ result.args[2] = "deaths" /\ df_kills.rows[k].user_name = result.args[1]}}

\* C10: every position returned by get_positions_for_heatmap is that of a
\* position sample at most 32 ticks away from one of the queried events.
C10_WithinTolerance ==
    HeatmapReturned =>
        \A i \in DOMAIN result.value :
            \E s \in DOMAIN df_ticks.rows, e \in QueriedTicks :
                /\ result.value[i] = [x |-> df_ticks.rows[s].X, y |-> df_ticks.rows[s].Y,
                                      z |-> df_ticks.rows[s].Z]
                /\ df_ticks.rows[s].tick - e <= 32
                /\ e - df_ticks.rows[s].tick <= 32

\* one event matched to a sample exactly 32 ticks away, another one dropped
\* because its closest sample is 33 ticks away
C10_Witness ==
    /\ HeatmapReturned
    /\ Len(result.value) = 1
    /\ Cardinality(QueriedTicks) = 2
    /\ \E e \in QueriedTicks : \A s \in DOMAIN df_ticks.rows :
          Abs(df_ticks.rows[s].tick - e) >= 33
    /\ \E e \in QueriedTicks : \A s \in DOMAIN df_ticks.rows :
          Abs(df_ticks.rows[s].tick - e) = 32

\* the event ticks of the call, in table order (one entry per event row)
QueriedTickSeq ==
    IF result.args[2] = "kills"
    THEN EventTicks(df_kills.rows, "attacker_name", result.args[1])
    ELSE IF result.args[2] = "deaths"
    THEN EventTicks(df_kills.rows, "user_name", result.args[1])
    ELSE <<>>

PositionOf(s) == [x |-> s.X, y |-> s.Y, z |-> s.Z]

\* C11: every position returned by get_positions_for_heatmap(player, event_type)
\* is the position of a sample that belongs to that same player (no sample of
\* another player is ever returned for the tracked player).
C11_OwnSamplesOnly ==
    HeatmapReturned =>
        \A i \in DOMAIN result.value :
            \E s \in DOMAIN df_ticks.rows :
                /\ df_ticks.rows[s].name = result.args[1]
                /\ result.value[i] = PositionOf(df_ticks.rows[s])

\* the distance from an event tick to the closest sample of the whole table
MinDistance(e) ==
    CHOOSE d \in {Abs(df_ticks.rows[s].tick - e) : s \in DOMAIN df_ticks.rows} :
        \A s \in DOMAIN df_ticks.rows : d <= Abs(df_ticks.rows[s].tick - e)

HasNearbySample(e) == \E s \in DOMAIN df_ticks.rows : Abs(df_ticks.rows[s].tick - e) <= 32

\* the events of the call that have a sample within tolerance, in table order
MatchedTicks == SelectSeq(QueriedTickSeq, HasNearbySample)

\* C12: get_positions_for_heatmap never raises; it returns, in event order, one
\* position per event of the player that has a sample within 32 ticks, each
\* the position of a sample with the closest tick, and nothing for the other
\* events; so no more positions than events, and the empty table when nothing
\* matches, the player has no events, or event_type is neither 'kills' nor
\* 'deaths'.
C12_ClosestOrDropped ==
    result.op = "get_positions_for_heatmap" =>
        /\ result.raised = ""
        /\ ~df_kills.loaded \/ ~df_ticks.loaded => result.value = <<>>
        /\ df_kills.loaded /\ df_ticks.loaded =>
            /\ Len(result.value) = Len(MatchedTicks)
            /\ Len(result.value) <= Len(QueriedTickSeq)
            /\ \A i \in DOMAIN result.value :
                  \E s \in DOMAIN df_ticks.rows :
                      /\ result.value[i] = PositionOf(df_ticks.rows[s])
                      /\ Abs(df_ticks.rows[s].tick - MatchedTicks[i]) = MinDistance(MatchedTicks[i])
            /\ result.args[2] \notin {"kills", "deaths"} => result.value = <<>>

\* two events of the player: one is dropped, the other is matched to the
\* closer of two samples, which is not the first row of the sample table
C12_Witness ==
    /\ HeatmapReturned
    /\ Len(QueriedTickSeq) = 2
    /\ Len(result.value) = 1
    /\ Len(df_ticks.rows) = 2
    /\ Abs(df_ticks.rows[1].tick - MatchedTicks[1]) > 32
    /\ result.value[1] = PositionOf(df_ticks.rows[2])

----------------------------------------------------------------------------
(* PlayerRatingCalculator: rating.py *)

\* Weights are written in hundredths: 35 stands for 0.35.
WeightScale == 100

\* PlayerRatingCalculator.__init__: the first positional argument is kept as
\* k_factor; app.main hands it the sidebar's weight dictionary.
Calculator(k_factor) ==
    [constructed |-> TRUE, k_factor |-> k_factor, base_rating |-> 1500,
     player_ratings |-> <<>>]

\* the sidebar's dictionary: three sliders, no multi-kill weight
Weights(kd, hs, adr) == [kd_weight |-> kd, hs_weight |-> hs, adr_weight |-> adr]

\* a float cell compared with a float cell
FloatLess(a, b) ==
    /\ a.kind # "nan" /\ b.kind # "nan"
    /\ \/ a.kind = "num" /\ b.kind = "inf"
       \/ a.kind = "num" /\ b.kind = "num" /\ a.num * b.den < b.num * a.den

FloatAdd(a, b) ==
    IF a.kind = "nan" \/ b.kind = "nan" THEN NaN
    ELSE IF a.kind = "inf" \/ b.kind = "inf" THEN Inf
    ELSE Frac(a.num * b.den + b.num * a.den, a.den * b.den)


\* Series.clip(lower, upper): NaN stays NaN
Clip(x, lower, upper) ==
    IF x.kind = "nan" THEN NaN
    ELSE IF FloatLess(x, Flt(lower)) THEN Flt(lower)
    ELSE IF FloatLess(Flt(upper), x) THEN Flt(upper)
    ELSE x

\* x / d * 100 on a finite or NaN cell
Normalize(x, d) == IF IsNum(x) THEN Frac(x.num * 100, x.den * d) ELSE x

\* a slip: the digits after the first decimal cut off
Truncate1(x) ==
    IF ~IsNum(x) THEN x ELSE Frac((x.num * 10) \div x.den, 10)

\* Series.round(1): the nearest tenth, a half going to the even tenth
Round1(x) ==
    IF ~IsNum(x) THEN x
    ELSE LET n == x.num * 10
             q == n \div x.den
             r == n % x.den
             tenths == IF 2 * r < x.den THEN q
                       ELSE IF 2 * r > x.den THEN q + 1
                       ELSE IF q % 2 = 0 THEN q ELSE q + 1
         IN Frac(tenths, 10)

_calculate_kd_score(kd_ratio) == Round1(Normalize(Clip(kd_ratio, 0, 3), 3))

_calculate_hs_score(hs_percentage) == Round1(hs_percentage)

_calculate_adr_score(adr) == Round1(Normalize(Clip(adr, 0, 150), 150))

\* a slip: the point table of config.MULTIKILL_SCORES, which rating.py does not use
BandPointsOfConfig(kill_count) ==
    IF kill_count >= 5 THEN 10
    ELSE IF kill_count = 4 THEN 6
    ELSE IF kill_count = 3 THEN 3
    ELSE IF kill_count = 2 THEN 1
    ELSE 0

\* the if/elif chain of _calculate_multikill_score
BandPoints(kill_count) ==
    IF kill_count >= 5 THEN 50
    ELSE IF kill_count = 4 THEN 30
    ELSE IF kill_count = 3 THEN 15
    ELSE IF kill_count = 2 THEN 5
    ELSE 0

RECURSIVE TotalScore(_)
TotalScore(mks) ==
    IF mks = <<>> THEN 0 ELSE BandPoints(Head(mks).kill_count) + TotalScore(Tail(mks))

Min(a, b) == IF a <= b THEN a ELSE b

_calculate_multikill_score(player, multikills) ==
    IF player \in DOMAIN multikills THEN Flt(Min(TotalScore(multikills[player]), 100))
    ELSE Flt(0)

\* score * weight, the weight in hundredths
Weighted(score, w) ==
    IF IsNum(score) THEN Frac(score.num * w, score.den * WeightScale) ELSE score

\* the four literals of generate_rating_report, in hundredths
KdWeight == 35
HsWeight == 20
AdrWeight == 30
MultikillWeight == 15

OverallRating(kd_score, hs_score, adr_score, multikill_score) ==
    FloatAdd(FloatAdd(FloatAdd(Weighted(kd_score, KdWeight), Weighted(hs_score, HsWeight)),
                      Weighted(adr_score, AdrWeight)),
             Weighted(multikill_score, MultikillWeight))

\* the stat line with its four component scores and the overall rating
Scored(row, multikills) ==
    LET kd == _calculate_kd_score(row.kd_ratio)
        hs == _calculate_hs_score(row.hs_percentage)
        adr == _calculate_adr_score(row.adr)
        mk == _calculate_multikill_score(row.player_name, multikills)
    IN [player_name |-> row.player_name, kd_ratio |-> row.kd_ratio,
        hs_percentage |-> row.hs_percentage, adr |-> row.adr,
        kd_score |-> kd, hs_score |-> hs, adr_score |-> adr, multikill_score |-> mk,
        overall_rating |-> OverallRating(kd, hs, adr, mk), rank |-> 0]

\* a slip: rank(method='min'), one more than the number of better players
MinRank(scored, i) ==
    1 + Cardinality({j \in DOMAIN scored :
                        FloatLess(scored[i].overall_rating, scored[j].overall_rating)})

\* rank(ascending=False, method='dense'): one more than the number of
\* distinct better ratings
DenseRank(scored, i) ==
    1 + Cardinality({scored[j].overall_rating : j \in
                        {k \in DOMAIN scored :
                            FloatLess(scored[i].overall_rating, scored[k].overall_rating)}})

RatingReport(stats, multikills) ==
    LET scored == [i \in DOMAIN stats |-> Scored(stats[i], multikills)]
    IN [i \in DOMAIN scored |-> [scored[i] EXCEPT !.rank = DenseRank(scored, i)]]

\* rank(...).astype(int) cannot cast the NaN rank of a NaN rating
RankCastFails(stats, multikills) ==
    \E i \in DOMAIN stats : Scored(stats[i], multikills).overall_rating.kind = "nan"

\* Inputs of the rating engine
RatingNames == <<"A", "B", "C", "D", "E">>

StatLine(name, kd_ratio, hs_percentage, adr) ==
    [player_name |-> name, kd_ratio |-> kd_ratio, hs_percentage |-> hs_percentage,
     adr |-> adr]

MultiKill(kill_count) == [round_num |-> 1, kill_count |-> kill_count, tick |-> 100]

KdValues == {Flt(0), Frac(1, 3), Frac(1, 2), Flt(1), Flt(3), Flt(4)}
HsValues == {Flt(0), Frac(100, 3), Flt(50), Flt(100), Flt(150)}
AdrValues == {Flt(0), Flt(50), Flt(150), Flt(200), Inf, NaN}

\* one stat line of every kind, with no multi-kill, a double kill or two aces
ScoreInputs ==
    {[stats |-> <<StatLine("A", kd, hs, adr)>>, multikills |-> mk] :
        kd \in KdValues, hs \in HsValues, adr \in AdrValues,
        mk \in {<<>>, [p \in {"A"} |-> <<MultiKill(2)>>],
               [p \in {"A"} |-> <<MultiKill(5), MultiKill(5)>>]}}

\* one stat line with every list of multi-kills
MultiKillInputs ==
    {[stats |-> <<StatLine("A", Flt(1), Flt(50), Flt(50))>>,
      multikills |-> [p \in {"A"} |-> mks]] :
        mks \in SeqsUpTo({MultiKill(c) : c \in 2..6}, RatingMaxMultiKills)}

\* several players, some of them with the same stat line
RankLines == {<<Flt(0), Flt(0), Flt(0)>>, <<Flt(1), Flt(50), Flt(50)>>,
              <<Flt(3), Flt(100), Flt(150)>>}

RankInputs ==
    {[stats |-> [i \in 1..n |-> StatLine(RatingNames[i], l[i][1], l[i][2], l[i][3])],
      multikills |-> mk] :
        n \in 0..RatingMaxPlayers,
        l \in [1..RatingMaxPlayers -> RankLines],
        mk \in {<<>>, [p \in {"B"} |-> <<MultiKill(3)>>]}}

RatingInputs == ScoreInputs \cup MultiKillInputs \cup RankInputs

\* the sidebar's default sliders, the two scenarios of the weight rule, and
\* the literals of generate_rating_report
WeightConfigs ==
    {Weights(30, 15, 25), Weights(50, 50, 0), Weights(100, 100, 100), Weights(35, 20, 30)}

\* a slip: the score columns written into the caller's stat table
GenerateRatingReportInPlace ==
    /\ calculator.constructed
    /\ result' = IF RankCastFails(rating_input.stats, rating_input.multikills)
                 THEN Raised("generate_rating_report", <<>>, "ValueError")
                 ELSE Returned("generate_rating_report", <<>>,
                               RatingReport(rating_input.stats, rating_input.multikills))
    /\ rating_input' =
          [rating_input EXCEPT
              !.stats = [i \in DOMAIN @ |-> Scored(@[i], rating_input.multikills)]]
    /\ UNCHANGED <<demo, df_kills, df_damages, df_rounds, df_ticks, round_mapping,
                   calculator, matches, session_state, uploaded_file>>

\* generate_rating_report(stats, multikills): works on stats.copy()
GenerateRatingReport ==
    /\ calculator.constructed
    /\ result' = IF RankCastFails(rating_input.stats, rating_input.multikills)
                 THEN Raised("generate_rating_report", <<>>, "ValueError")
                 ELSE Returned("generate_rating_report", <<>>,
                               RatingReport(rating_input.stats, rating_input.multikills))
    /\ UNCHANGED <<demo, df_kills, df_damages, df_rounds, df_ticks, round_mapping,
                   calculator, rating_input, matches, session_state, uploaded_file>>

InitRating ==
    /\ demo = Demo(<<>>, <<>>, <<>>, <<>>, 0)
    /\ Constructed
    /\ calculator \in {Calculator(w) : w \in WeightConfigs}
    /\ rating_input \in RatingInputs
    /\ NoSession

NextRating == GenerateRatingReport

SpecRating == InitRating /\ [][NextRating]_vars

----------------------------------------------------------------------------
(* Properties of generate_rating_report *)

ReportReturned == result.op = "generate_rating_report" /\ result.raised = ""

\* clamp(x, 0, cap) / cap * 100 as an exact fraction (x finite or infinite)
Linear(x, cap) ==
    IF x.kind = "inf" THEN Flt(100)
    ELSE IF x.num >= cap * x.den THEN Flt(100)
    ELSE IF x.num <= 0 THEN Flt(0)
    ELSE Frac(x.num * 100, x.den * cap)

\* C13 as stated: for every rated player kd_score is exactly
\* clamp(kd_ratio, 0, 3.0) / 3.0 * 100 and adr_score is exactly
\* clamp(adr, 0, 150) / 150 * 100.
C13_AsStated ==
    ReportReturned =>
        \A i \in DOMAIN result.value :
            /\ result.value[i].kd_score = Linear(result.value[i].kd_ratio, 3)
            /\ result.value[i].adr_score = Linear(result.value[i].adr, 150)

\* score is a number of tenths at most 0.05 away from exact
IsRoundedToTenth(score, exact) ==
    /\ IsNum(score) /\ 10 % score.den = 0
    /\ 20 * Abs(score.num * exact.den - exact.num * score.den) <= score.den * exact.den

\* C13: for every rated player kd_score is clamp(kd_ratio, 0, 3.0) / 3.0 * 100
\* rounded to one decimal place and adr_score is clamp(adr, 0, 150) / 150 * 100
\* rounded to one decimal place.
C13_RoundedToTenth ==
    ReportReturned =>
        \A i \in DOMAIN result.value :
            /\ IsRoundedToTenth(result.value[i].kd_score, Linear(result.value[i].kd_ratio, 3))
            /\ IsRoundedToTenth(result.value[i].adr_score, Linear(result.value[i].adr, 150))

\* kd_ratio 0.5 scores 16.7 (16.66.. rounded up) and adr 200 scores 100
C13_Witness ==
    /\ ReportReturned
    /\ \E i \in DOMAIN result.value :
          /\ result.value[i].kd_ratio = Frac(1, 2)
          /\ result.value[i].kd_score = Frac(167, 10)
          /\ result.value[i].adr = Flt(200)
          /\ result.value[i].adr_score = Flt(100)

InRange0To100(x) == IsNum(x) /\ 0 <= x.num /\ x.num <= 100 * x.den

\* C14: generate_rating_report gives every stat line, whatever its values,
\* four sub-scores in [0, 100], with hs_score = clamp(hs_percentage, 0, 100)
\* (here: up to the rounding to one decimal place), and never an error or NaN.
C14_SubScoresInRange ==
    result.op = "generate_rating_report" =>
        /\ result.raised = ""
        /\ \A i \in DOMAIN result.value :
              /\ InRange0To100(result.value[i].kd_score)
              /\ InRange0To100(result.value[i].hs_score)
              /\ InRange0To100(result.value[i].adr_score)
              /\ InRange0To100(result.value[i].multikill_score)
              /\ IsRoundedToTenth(result.value[i].hs_score,
                                  Linear(result.value[i].hs_percentage, 100))

\* the multi-kill records of a rated player (none when the dictionary has no entry)
RecordsOf(player) ==
    IF player \in DOMAIN rating_input.multikills THEN rating_input.multikills[player]
    ELSE <<>>

CountWhere(mks, lo, hi) ==
    Cardinality({k \in DOMAIN mks : lo <= mks[k].kill_count /\ mks[k].kill_count <= hi})

\* 5 per double, 15 per triple, 30 per quad, 50 per record of five kills or more
BandSum(mks) ==
    5 * CountWhere(mks, 2, 2) + 15 * CountWhere(mks, 3, 3) + 30 * CountWhere(mks, 4, 4)
    + 50 * CountWhere(mks, 5, 1000)

\* C15: for every rated player multikill_score = min(sum of band points over
\* the player's multi-kill records, 100), with 5 points for kill_count 2, 15
\* for 3, 30 for 4 and 50 for 5 or more; 0 for a player with no record.
C15_BandPoints ==
    ReportReturned =>
        \A i \in DOMAIN result.value :
            LET sum == BandSum(RecordsOf(result.value[i].player_name))
            IN result.value[i].multikill_score = Flt(IF sum < 100 THEN sum ELSE 100)

\* three records of five kills or more, one of them of six, give 150, capped
\* at 100
C15_Witness ==
    /\ ReportReturned
    /\ \E i \in DOMAIN result.value :
          LET mks == RecordsOf(result.value[i].player_name)
          IN /\ Len(mks) = 3
             /\ CountWhere(mks, 5, 1000) = 3
             /\ CountWhere(mks, 6, 6) = 1
             /\ result.value[i].multikill_score = Flt(100)

\* the sub-scores as whole tenths
Tenths(score) == score.num * (10 \div score.den)

\* the weights handed to the calculator; the sidebar has no multi-kill slider
SuppliedWeights ==
    <<calculator.k_factor.kd_weight, calculator.k_factor.hs_weight,
      calculator.k_factor.adr_weight, 0>>

SuppliedSum == SuppliedWeights[1] + SuppliedWeights[2] + SuppliedWeights[3] + SuppliedWeights[4]

\* the divisor that turns the supplied hundredths into the effective weights:
\* 100 when they sum to 1.0 +/- 0.01, their sum otherwise
WeightDivisor == IF 99 <= SuppliedSum /\ SuppliedSum <= 101 THEN 100 ELSE SuppliedSum

\* C16: overall_rating = kd_score*w_kd + hs_score*w_hs + adr_score*w_adr +
\* multikill_score*w_mk with w the weights supplied by the caller, used as they
\* are when they sum to a value in [0.99, 1.01] and divided by their sum otherwise.
C16_SuppliedWeights ==
    ReportReturned /\ SuppliedSum > 0 =>
        \A i \in DOMAIN result.value :
            LET r == result.value[i]
            IN r.overall_rating =
                   Frac(Tenths(r.kd_score) * SuppliedWeights[1]
                        + Tenths(r.hs_score) * SuppliedWeights[2]
                        + Tenths(r.adr_score) * SuppliedWeights[3]
                        + Tenths(r.multikill_score) * SuppliedWeights[4],
                        10 * WeightDivisor)

\* C17: every player of the table returned by generate_rating_report has an
\* overall_rating in [0, 100].
C17_OverallInRange ==
    ReportReturned =>
        \A i \in DOMAIN result.value : InRange0To100(result.value[i].overall_rating)

Ratings == {result.value[i].overall_rating : i \in DOMAIN result.value}

\* C18: rank is the dense rank over overall_rating descending: equal ranks
\* exactly for equal ratings, a higher rating has the smaller rank, and the
\* ranks are 1..k for k distinct ratings (so the best is 1 and the next lower
\* distinct rating is rank + 1).
C18_DenseRank ==
    ReportReturned =>
        /\ \A i, j \in DOMAIN result.value :
              /\ result.value[i].rank = result.value[j].rank
                    <=> result.value[i].overall_rating = result.value[j].overall_rating
              /\ FloatLess(result.value[i].overall_rating, result.value[j].overall_rating)
                    => result.value[i].rank > result.value[j].rank
        /\ {result.value[i].rank : i \in DOMAIN result.value} = 1..Cardinality(Ratings)

\* two players tied at rank 1 and a third, lower one at rank 2
C18_Witness ==
    /\ ReportReturned
    /\ Len(result.value) = 3
    /\ \E i, j, k \in DOMAIN result.value :
          /\ i # j
          /\ result.value[i].rank = 1 /\ result.value[j].rank = 1
          /\ result.value[k].rank = 2
          /\ FloatLess(result.value[k].overall_rating, result.value[i].overall_rating)

----------------------------------------------------------------------------
(* CS2DemoParser.get_round_by_round_stats and get_performance_trends *)

\* what fillna(0) leaves in a name cell that was missing: the number 0
ZeroName == "0"

\* (round, name) keys of groupby(['round', col]).size(); null names are dropped
RoundKeys(kills, col) ==
    {<<kills.rows[i].round, kills.rows[i][col]>> :
        i \in {k \in DOMAIN kills.rows : kills.rows[k][col] # NoName}}

RoundCount(kills, col, key) ==
    Cardinality({k \in DOMAIN kills.rows :
                    kills.rows[k].round = key[1] /\ kills.rows[k][col] = key[2]})

\* pd.merge(round_kills, round_deaths, how='outer'): a key of one side only
\* has the other side's name and count missing (-1 stands for a missing count)
Merged(kills) ==
    LET kk == RoundKeys(kills, "attacker_name")
        dk == RoundKeys(kills, "user_name")
    IN {[round |-> key[1],
         attacker_name |-> IF key \in kk THEN key[2] ELSE NoName,
         kills |-> IF key \in kk THEN RoundCount(kills, "attacker_name", key) ELSE -1,
         user_name |-> IF key \in dk THEN key[2] ELSE NoName,
         deaths |-> IF key \in dk THEN RoundCount(kills, "user_name", key) ELSE -1] :
            key \in kk \cup dk}

\* .fillna(0) on the merged frame: every missing cell, names included
MergedFilled(kills) ==
    {[m EXCEPT !.attacker_name = IF @ = NoName THEN ZeroName ELSE @,
               !.user_name = IF @ = NoName THEN ZeroName ELSE @,
               !.kills = IF @ = -1 THEN 0 ELSE @,
               !.deaths = IF @ = -1 THEN 0 ELSE @] : m \in Merged(kills)}

\* the lambda of round_stats.apply
RoundKd(row_kills, row_deaths) ==
    IF row_deaths > 0 THEN Frac(row_kills, row_deaths) ELSE Flt(row_kills)

\* attacker_name.fillna(user_name), the column selection and kd_ratio
RoundRow(m) ==
    [round |-> m.round,
     player_name |-> IF m.attacker_name = NoName THEN m.user_name ELSE m.attacker_name,
     kills |-> m.kills, deaths |-> m.deaths, kd_ratio |-> RoundKd(m.kills, m.deaths)]

\* the place of a name in sorted order: the number 0 sorts before every string
NameRank(name) ==
    IF name = ZeroName THEN 0 ELSE CHOOSE i \in DOMAIN NameOrder : NameOrder[i] = name

\* sort_values(['round', 'player_name']); rows with equal keys stay in the
\* order of the merge, which is by the name of the joined key
RowBefore(a, b) ==
    \/ a.round < b.round
    \/ a.round = b.round /\ NameRank(RoundRow(a).player_name) < NameRank(RoundRow(b).player_name)
    \/ /\ a.round = b.round
       /\ NameRank(RoundRow(a).player_name) = NameRank(RoundRow(b).player_name)
       /\ NameRank(a.user_name) < NameRank(b.user_name)

RECURSIVE SortedRoundRows(_)
SortedRoundRows(ms) ==
    IF ms = {} THEN <<>>
    ELSE LET first == CHOOSE m \in ms : \A o \in ms \ {m} : RowBefore(m, o)
         IN <<RoundRow(first)>> \o SortedRoundRows(ms \ {first})

RoundByRoundStats(kills) == SortedRoundRows(MergedFilled(kills))

\* the call's result, shared by the two callers below; with no row at all,
\* round_stats.apply(axis=1) yields an empty column and the table is empty
RoundStatsResult(op, table) ==
    IF ~df_kills.loaded \/ "round" \notin df_kills.cols
    THEN Returned(op, <<>>, <<>>)
    ELSE Returned(op, <<>>, table)

GetRoundByRoundStats ==
    /\ result' = RoundStatsResult("get_round_by_round_stats", RoundByRoundStats(df_kills))
    /\ UNCHANGED <<demo, df_kills, df_damages, df_rounds, df_ticks, round_mapping,
                   calculator, rating_input, matches, session_state, uploaded_file>>

\* the keys of groupby('player_name'), in sorted order
GroupNames(round_stats) ==
    SelectSeq(<<ZeroName>> \o NameOrder,
              LAMBDA n : \E i \in DOMAIN round_stats : round_stats[i].player_name = n)

RECURSIVE SumOf(_, _, _)
SumOf(group, col, n) == IF n = 0 THEN 0 ELSE group[n][col] + SumOf(group, col, n - 1)

RECURSIVE SumOfKd(_, _)
SumOfKd(group, n) ==
    IF n = 0 THEN Flt(0) ELSE FloatAdd(group[n].kd_ratio, SumOfKd(group, n - 1))

\* a slip: the ratio of the running sums instead of the running mean
KdOfSums(group, n) ==
    IF SumOf(group, "deaths", n) > 0
    THEN Frac(SumOf(group, "kills", n), SumOf(group, "deaths", n))
    ELSE Flt(SumOf(group, "kills", n))

\* group['kd_ratio'].expanding().mean()
ExpandingMean(group, n) == FloatDiv(SumOfKd(group, n), Flt(n))

\* group.assign(cumulative_kills=..., cumulative_deaths=..., cumulative_kd=...)
Assigned(group) ==
    [n \in DOMAIN group |->
        [round |-> group[n].round, player_name |-> group[n].player_name,
         kills |-> group[n].kills, deaths |-> group[n].deaths,
         kd_ratio |-> group[n].kd_ratio,
         cumulative_kills |-> SumOf(group, "kills", n),
         cumulative_deaths |-> SumOf(group, "deaths", n),
         cumulative_kd |-> ExpandingMean(group, n)]]

RECURSIVE ConcatGroups(_, _)
ConcatGroups(round_stats, names) ==
    IF names = <<>> THEN <<>>
    ELSE Assigned(SelectSeq(round_stats, LAMBDA r : r.player_name = Head(names)))
         \o ConcatGroups(round_stats, Tail(names))

PerformanceTrends(round_stats) == ConcatGroups(round_stats, GroupNames(round_stats))

\* get_performance_trends: empty when get_round_by_round_stats is empty
GetPerformanceTrends ==
    /\ result' = RoundStatsResult("get_performance_trends",
                                  PerformanceTrends(RoundByRoundStats(df_kills)))
    /\ UNCHANGED <<demo, df_kills, df_damages, df_rounds, df_ticks, round_mapping,
                   calculator, rating_input, matches, session_state, uploaded_file>>

\* Round tables of kills: two rounds ending at ticks 10 and 20
TrendKillTicks == {5, 15}

TrendKillRows ==
    {Kill(t, a, v, NoName, FALSE) :
        t \in TrendKillTicks,
        a \in PlayerNames \cup {NoName}, v \in PlayerNames} \
    {Kill(t, p, p, NoName, FALSE) : t \in TrendKillTicks, p \in PlayerNames}

\* the round_end extraction either succeeds or raises (bad = 3)
TrendDemos ==
    {Demo(k, <<>>, <<RoundEnd(10), RoundEnd(20)>>, <<>>, bad) :
        k \in SeqsUpTo(TrendKillRows, TrendMaxKills), bad \in {0, 3}}

InitTrend == demo \in TrendDemos /\ Constructed /\ NoRating /\ NoSession

NextTrend == ParseDemo \/ GetRoundByRoundStats \/ GetPerformanceTrends

SpecTrend == InitTrend /\ [][NextTrend]_vars

----------------------------------------------------------------------------
(* Properties of get_round_by_round_stats and get_performance_trends *)

RoundStatsReturned ==
    result.op = "get_round_by_round_stats" /\ result.raised = "" /\ RoundsAssigned

KillsIn(r, p) ==
    Cardinality({k \in DOMAIN df_kills.rows :
                    df_kills.rows[k].round = r /\ df_kills.rows[k].attacker_name = p})

DeathsIn(r, p) ==
    Cardinality({k \in DOMAIN df_kills.rows :
                    df_kills.rows[k].round = r /\ df_kills.rows[k].user_name = p})

RoundNumbers == {df_kills.rows[k].round : k \in DOMAIN df_kills.rows}

\* C19: get_round_by_round_stats returns exactly one row for each round r and
\* player p with a kill or a death in r, keyed by p's own name, with kills and
\* deaths the numbers of p's kills and deaths in r (zero for none, also for a
\* player who only died) and kd_ratio = kills/deaths if deaths > 0 else kills.
C19_OneRowPerRoundPlayer ==
    RoundStatsReturned =>
        /\ \A r \in RoundNumbers, p \in PlayerNames :
              KillsIn(r, p) + DeathsIn(r, p) > 0 =>
                  /\ Cardinality({i \in DOMAIN result.value :
                                     /\ result.value[i].round = r
                                     /\ result.value[i].player_name = p}) = 1
                  /\ \E i \in DOMAIN result.value :
                        /\ result.value[i].round = r
                        /\ result.value[i].player_name = p
                        /\ result.value[i].kills = KillsIn(r, p)
                        /\ result.value[i].deaths = DeathsIn(r, p)
                        /\ result.value[i].kd_ratio =
                              IF DeathsIn(r, p) > 0
                              THEN Frac(KillsIn(r, p), DeathsIn(r, p))
                              ELSE Flt(KillsIn(r, p))
        /\ \A i \in DOMAIN result.value :
              /\ result.value[i].player_name \in PlayerNames
              /\ KillsIn(result.value[i].round, result.value[i].player_name)
                 + DeathsIn(result.value[i].round, result.value[i].player_name) > 0

TrendsReturned ==
    result.op = "get_performance_trends" /\ result.raised = "" /\ RoundsAssigned

\* the rows of one player_name, by their place in the returned table
TrendRowsOf(name) == {i \in DOMAIN result.value : result.value[i].player_name = name}

TrendNames == {result.value[i].player_name : i \in DOMAIN result.value}

RECURSIVE SumOver(_, _)
SumOver(S, col) ==
    IF S = {} THEN 0
    ELSE LET i == CHOOSE x \in S : TRUE IN result.value[i][col] + SumOver(S \ {i}, col)

\* n times the mean equals the sum: the kd_ratio values of the rows S, each
\* a fraction, add up to n * mean
RECURSIVE KdSumOver(_)
KdSumOver(S) ==
    IF S = {} THEN Flt(0)
    ELSE LET i == CHOOSE x \in S : TRUE
         IN FloatAdd(result.value[i].kd_ratio, KdSumOver(S \ {i}))

\* C20: in get_performance_trends, for each player the rows are in ascending
\* round order, cumulative_kills and cumulative_deaths of a row are the sums of
\* that player's kills and deaths over the rows up to and including it (hence
\* non-decreasing, the last cumulative_kills being the player's total kills),
\* and cumulative_kd is the mean of the player's kd_ratio over those rows.
C20_PrefixSums ==
    TrendsReturned =>
        \A name \in TrendNames :
            /\ \A i, j \in TrendRowsOf(name) :
                  i < j => /\ result.value[i].round <= result.value[j].round
                           /\ result.value[i].cumulative_kills <= result.value[j].cumulative_kills
                           /\ result.value[i].cumulative_deaths <= result.value[j].cumulative_deaths
            /\ \A i \in TrendRowsOf(name) :
                  LET upto == {j \in TrendRowsOf(name) : j <= i}
                  IN /\ result.value[i].cumulative_kills = SumOver(upto, "kills")
                     /\ result.value[i].cumulative_deaths = SumOver(upto, "deaths")
                     /\ FloatMul(result.value[i].cumulative_kd, Cardinality(upto))
                           = KdSumOver(upto)
                     /\ (\A j \in TrendRowsOf(name) : j <= i) =>
                           result.value[i].cumulative_kills
                              = Cardinality({k \in DOMAIN df_kills.rows :
                                                df_kills.rows[k].attacker_name = name})

\* a player with two kills in round 1 and one kill and one death in round 2:
\* cumulative kills 2 then 3, cumulative deaths 0 then 1, cumulative kd 2 then 1.5
C20_Witness ==
    /\ TrendsReturned
    /\ \E i, j \in DOMAIN result.value :
          /\ result.value[i].player_name = "A" /\ result.value[j].player_name = "A"
          /\ result.value[i].round = 1 /\ result.value[j].round = 2
          /\ result.value[i].cumulative_kills = 2 /\ result.value[j].cumulative_kills = 3
          /\ result.value[i].cumulative_deaths = 0 /\ result.value[j].cumulative_deaths = 1
          /\ result.value[i].cumulative_kd = Flt(2)
          /\ result.value[j].cumulative_kd = Frac(3, 2)

----------------------------------------------------------------------------
(* Which round a kill on a round boundary belongs to *)

ContainingRounds(tick) == {r \in DOMAIN round_mapping : InRange(tick, round_mapping[r])}

\* C27: a kill gets the smallest round index whose closed range contains its
\* tick; a kill on the tick where round i ends and round i+1 starts gets round
\* i; round 1 is the single tick of the first marker, so a kill before the
\* first marker lies in no range and gets round 1 by the default.
C27_LowestContainingRound ==
    RoundsAssigned =>
        /\ round_mapping # <<>> => round_mapping[1].start_tick = round_mapping[1].end_tick
        /\ \A k \in DOMAIN df_kills.rows :
            LET kill == df_kills.rows[k]
                containing == ContainingRounds(kill.tick)
            IN /\ containing # {} =>
                    /\ kill.round \in containing
                    /\ \A r \in containing : kill.round <= r
               /\ \A i \in DOMAIN round_mapping :
                    (/\ i < Len(round_mapping)
                     /\ kill.tick = round_mapping[i].end_tick
                     /\ kill.tick = round_mapping[i + 1].start_tick
                     /\ (i = 1 \/ round_mapping[i].start_tick < kill.tick))
                    => kill.round = i
               /\ (round_mapping # <<>> /\ kill.tick < round_mapping[1].end_tick) =>
                    (containing = {} /\ kill.round = 1)

\* markers 10, 20, 30: one kill on the tick where round 2 ends and round 3
\* starts, assigned to round 2, and one kill before the first marker
C27_Witness ==
    /\ RoundsAssigned
    /\ Len(round_mapping) = 3
    /\ round_mapping[2].start_tick < round_mapping[2].end_tick
    /\ \E i, j \in DOMAIN df_kills.rows :
        /\ df_kills.rows[i].tick = round_mapping[2].end_tick
        /\ df_kills.rows[i].tick = round_mapping[3].start_tick
        /\ df_kills.rows[i].round = 2
        /\ df_kills.rows[j].tick < round_mapping[1].end_tick
        /\ df_kills.rows[j].round = 1

----------------------------------------------------------------------------
(* Match-by-match ratings: PlayerRatingCalculator.update_ratings *)

EloMaxMatches == 2

KFactor == 32

FloatSub(a, b) == FloatAdd(a, [b EXCEPT !.num = 0 - b.num])

\* the nearest thousandth of n / d, for d > 0
Thousandths(n, d) == Frac((2 * 1000 * n + d) \div (2 * d), 1000)

\* 1 / (1 + 10 ** ((rating_b - rating_a) / 400)).  The power is taken to first
\* order in the rating difference d, 10 ** (d / 400) = 1 + d * ln(10) / 400
\* with ln(10) / 400 written 23/4000, so that the score is 4000 / (8000 + 23 d);
\* 23 d is kept to two decimals and the score to three.  At d = 0 the value,
\* 0.5, is exact.
calculate_expected_score(rating_a, rating_b) ==
    LET d == FloatSub(rating_b, rating_a)
        x == (2300 * d.num) \div d.den
    IN Thousandths(400000, 800000 + x)

\* player_ratings is a dict: entries in insertion order
Entry(player, rating) == [player_name |-> player, rating |-> rating]

RatedPlayers(ratings) == {ratings[i].player_name : i \in DOMAIN ratings}

RatingOf(ratings, player) ==
    ratings[CHOOSE i \in DOMAIN ratings : ratings[i].player_name = player].rating

\* a slip: every call starts from an empty dict
RECURSIVE FreshRatings(_, _, _)
FreshRatings(ratings, names, base_rating) ==
    IF names = <<>> THEN <<>>
    ELSE LET rest == FreshRatings(ratings, SubSeq(names, 1, Len(names) - 1), base_rating)
             player == names[Len(names)]
         IN IF player \in RatedPlayers(rest) THEN rest
            ELSE Append(rest, Entry(player, base_rating))

\* the first loop: a player not yet in the dict enters it at base_rating
RECURSIVE InitializeNew(_, _, _)
InitializeNew(ratings, names, base_rating) ==
    IF names = <<>> THEN ratings
    ELSE LET rest == InitializeNew(ratings, SubSeq(names, 1, Len(names) - 1), base_rating)
             player == names[Len(names)]
         IN IF player \in RatedPlayers(rest) THEN rest
            ELSE Append(rest, Entry(player, base_rating))

RECURSIVE SumRatings(_)
SumRatings(ratings) ==
    IF ratings = <<>> THEN Flt(0)
    ELSE FloatAdd(Head(ratings).rating, SumRatings(Tail(ratings)))

\* min(kd_ratio / 2.0, 1.0)
PerformanceScore(kd_ratio) ==
    LET half == FloatDiv(kd_ratio, Flt(2))
    IN IF FloatLess(half, Flt(1)) THEN half ELSE Flt(1)

\* one pass of the second loop
UpdateRow(ratings, row, k_factor) ==
    LET player == row.player_name
        avg_rating == FloatDiv(SumRatings(ratings), Flt(Len(ratings)))
        expected_score == calculate_expected_score(RatingOf(ratings, player), avg_rating)
        rating_change ==
            FloatMul(FloatSub(PerformanceScore(row.kd_ratio), expected_score), k_factor)
    IN [i \in DOMAIN ratings |->
           IF ratings[i].player_name = player
           THEN Entry(player, FloatAdd(ratings[i].rating, rating_change))
           ELSE ratings[i]]

RECURSIVE UpdateRows(_, _, _)
UpdateRows(ratings, rows, k_factor) ==
    IF rows = <<>> THEN ratings
    ELSE UpdateRows(UpdateRow(ratings, Head(rows), k_factor), Tail(rows), k_factor)

NamesOf(player_stats) == [i \in DOMAIN player_stats |-> player_stats[i].player_name]

\* self.player_ratings when update_ratings returns
update_ratings(ratings, player_stats, k_factor, base_rating) ==
    UpdateRows(InitializeNew(ratings, NamesOf(player_stats), Flt(base_rating)),
               player_stats, k_factor)

\* a slip: the calculator's own dict handed out
SameDict(ratings) == [ratings |-> ratings, shared |-> TRUE]

\* dict.copy(): a dict of the caller, not shared with the calculator
CopyOf(ratings) == [ratings |-> ratings, shared |-> FALSE]

NoneRating == [kind |-> "none", num |-> 0, den |-> 0]

UpdateRatings ==
    /\ calculator.constructed
    /\ matches.rated < Len(matches.tables)
    /\ LET player_stats == matches.tables[matches.rated + 1]
           ratings == update_ratings(calculator.player_ratings, player_stats,
                                     calculator.k_factor, calculator.base_rating)
       IN /\ calculator' = [calculator EXCEPT !.player_ratings = ratings]
          /\ result' = Returned("update_ratings", <<player_stats>>, CopyOf(ratings))
    /\ matches' = [matches EXCEPT !.rated = @ + 1]
    /\ UNCHANGED <<demo, df_kills, df_damages, df_rounds, df_ticks, round_mapping,
                   rating_input, session_state, uploaded_file>>

\* get_player_rating(player_name): dict.get
GetPlayerRating ==
    /\ calculator.constructed
    /\ \E player_name \in {"A", "B", "C"} :
          result' = Returned("get_player_rating", <<player_name>>,
                        IF player_name \in RatedPlayers(calculator.player_ratings)
                        THEN RatingOf(calculator.player_ratings, player_name)
                        ELSE NoneRating)
    /\ UNCHANGED <<demo, df_kills, df_damages, df_rounds, df_ticks, round_mapping,
                   calculator, rating_input, matches, session_state, uploaded_file>>

\* the caller empties the dict update_ratings handed back (dict.clear())
ClearReturnedRatings ==
    /\ result.op = "update_ratings"
    /\ result' = Returned("clear", <<>>, [result.value EXCEPT !.ratings = <<>>])
    /\ calculator' = IF result.value.shared
                     THEN [calculator EXCEPT !.player_ratings = <<>>]
                     ELSE calculator
    /\ UNCHANGED <<demo, df_kills, df_damages, df_rounds, df_ticks, round_mapping,
                   rating_input, matches, session_state, uploaded_file>>

\* Stat tables of a match: some of the players A and B, each with a K/D ratio
EloKdValues == {Flt(0), Flt(1), Flt(4)}

EloStatTables ==
    {<<>>}
    \cup {<<StatLine(n, kd, Flt(0), Flt(0))>> : n \in {"A", "B"}, kd \in EloKdValues}
    \cup {<<StatLine("A", kda, Flt(0), Flt(0)), StatLine("B", kdb, Flt(0), Flt(0))>> :
             kda \in EloKdValues, kdb \in EloKdValues}

InitElo ==
    /\ demo = Demo(<<>>, <<>>, <<>>, <<>>, 0)
    /\ Constructed
    /\ calculator = Calculator(KFactor)
    /\ rating_input = [stats |-> <<>>, multikills |-> <<>>]
    /\ matches \in {[tables |-> t, rated |-> 0] : t \in SeqsUpTo(EloStatTables, EloMaxMatches)}
    /\ session_state = InitialSession
    /\ uploaded_file = NoFile

NextElo == UpdateRatings \/ GetPlayerRating \/ ClearReturnedRatings

SpecElo == InitElo /\ [][NextElo]_vars

----------------------------------------------------------------------------
(* Properties of update_ratings *)

RatingsReturned == result.op = "update_ratings" /\ result.raised = ""

\* C23 as stated: what update_ratings returns depends only on the stat table
\* of the call and the configuration: it is what a calculator with no rated
\* player returns for that table, so a repeated call returns the same ratings.
C23_AsStated ==
    RatingsReturned =>
        result.value.ratings =
            update_ratings(<<>>, result.args[1], calculator.k_factor, calculator.base_rating)

\* the tables whose ratings have been updated so far
RatedTables == SubSeq(matches.tables, 1, matches.rated)

SeenPlayers == UNION {{t[i].player_name : i \in DOMAIN t} : t \in {RatedTables[j] : j \in DOMAIN RatedTables}}

InTable(player, player_stats) == \E i \in DOMAIN player_stats : player_stats[i].player_name = player

\* within k_factor of base_rating
NearBase(rating) ==
    /\ ~FloatLess(rating, Flt(calculator.base_rating - calculator.k_factor))
    /\ ~FloatLess(Flt(calculator.base_rating + calculator.k_factor), rating)

\* C29: the rated players are the players of all stat tables supplied so far;
\* a call moves a player it sees for the first time from base_rating by at most
\* k_factor (exactly k_factor * (min(kd/2, 1) - 0.5) when no other player is
\* rated), leaves the rating of a player absent from its table unchanged, and
\* returns a dict of its own: emptying that dict changes neither the
\* calculator's ratings nor what get_player_rating returns.
C29_RatingsPersist ==
    [][/\ RatedPlayers(calculator.player_ratings') = SeenPlayers'
       /\ result'.op = "update_ratings" =>
            /\ result'.value.ratings = calculator.player_ratings'
            /\ \A p \in RatedPlayers(calculator.player_ratings') :
                  LET before == calculator.player_ratings
                      after == calculator.player_ratings'
                      player_stats == result'.args[1]
                  IN /\ (p \notin RatedPlayers(before)) => NearBase(RatingOf(after, p))
                     /\ (before = <<>> /\ Len(player_stats) = 1) =>
                            RatingOf(after, p) =
                                FloatAdd(Flt(calculator.base_rating),
                                    FloatMul(FloatSub(PerformanceScore(player_stats[1].kd_ratio),
                                                      Frac(1, 2)),
                                             calculator.k_factor))
                     /\ (p \in RatedPlayers(before) /\ ~InTable(p, player_stats)) =>
                            RatingOf(after, p) = RatingOf(before, p)
       /\ result'.op = "clear" =>
            /\ result'.value.ratings = <<>>
            /\ calculator' = calculator
       /\ result'.op = "get_player_rating" =>
            result'.value =
                IF result'.args[1] \in SeenPlayers'
                THEN RatingOf(calculator.player_ratings', result'.args[1])
                ELSE NoneRating
      ]_vars

\* two calls: the first rated A away from base_rating, the second saw only B,
\* and the caller then emptied the returned dict
C29_Witness ==
    /\ result.op = "clear"
    /\ matches.rated = 2
    /\ ~InTable("A", matches.tables[2])
    /\ InTable("B", matches.tables[2]) /\ ~InTable("B", matches.tables[1])
    /\ RatedPlayers(calculator.player_ratings) = {"A", "B"}
    /\ RatingOf(calculator.player_ratings, "A") # Flt(calculator.base_rating)

----------------------------------------------------------------------------
(* get_weapon_usage_stats, quick_parse and calculate_ratings_from_parser *)

PrereqMaxKills == 2

WeaponOrder == <<"ak47", "awp">>

\* one row of the grouped frame: kills, headshots and headshot share of one
\* player with one weapon
WeaponRow(rows, player, weapon) ==
    LET group == {i \in DOMAIN rows :
                     rows[i].attacker_name = player /\ rows[i].weapon = weapon}
        headshots == Cardinality({i \in group : rows[i].headshot})
    IN [player_name |-> player, weapon |-> weapon, kills |-> Cardinality(group),
        headshots |-> headshots,
        hs_percentage |-> FillNa0(FloatDiv(Flt(headshots * 100), Flt(Cardinality(group))))]

\* the groups of one player in weapon order, groups with no row left out
RECURSIVE WeaponRowsOf(_, _, _)
WeaponRowsOf(rows, player, weapons) ==
    IF weapons = <<>> THEN <<>>
    ELSE LET row == WeaponRow(rows, player, Head(weapons))
         IN (IF row.kills > 0 THEN <<row>> ELSE <<>>)
            \o WeaponRowsOf(rows, player, Tail(weapons))

\* sort_values by kills, descending, equal counts staying in group order
RECURSIVE InsertByKills(_, _)
InsertByKills(row, sorted) ==
    IF sorted = <<>> THEN <<row>>
    ELSE IF row.kills > Head(sorted).kills THEN <<row>> \o sorted
    ELSE <<Head(sorted)>> \o InsertByKills(row, Tail(sorted))

RECURSIVE SortByKills(_)
SortByKills(rows) ==
    IF rows = <<>> THEN <<>>
    ELSE InsertByKills(rows[Len(rows)], SortByKills(SubSeq(rows, 1, Len(rows) - 1)))

RECURSIVE WeaponUsage(_, _)
WeaponUsage(rows, names) ==
    IF names = <<>> THEN <<>>
    ELSE SortByKills(WeaponRowsOf(rows, Head(names), WeaponOrder))
         \o WeaponUsage(rows, Tail(names))

\* a slip: the weapon column is not looked for
get_weapon_usage_unguarded(kills) ==
    IF ~kills.loaded THEN <<>> ELSE WeaponUsage(kills.rows, NameOrder)

get_weapon_usage_stats(kills) ==
    IF ~kills.loaded THEN <<>>
    ELSE IF "weapon" \notin kills.cols THEN <<>>
    ELSE WeaponUsage(kills.rows, NameOrder)

GetWeaponUsageStats ==
    /\ result' = Returned("get_weapon_usage_stats", <<>>, get_weapon_usage_stats(df_kills))
    /\ UNCHANGED <<demo, df_kills, df_damages, df_rounds, df_ticks, round_mapping,
                   calculator, rating_input, matches, session_state, uploaded_file>>

\* a parser constructed on file d, after its parse_demo call
ParsedParser(d) ==
    LET kills == IF d.bad = 1 THEN NoTable ELSE d.kills
        damages == IF d.bad \in 1..2 THEN NoTable ELSE d.damages
        rounds == IF d.bad \in 1..3 THEN NoTable ELSE d.rounds
        ticks == IF d.bad \in 1..4 THEN NoTable ELSE d.ticks
        assign == d.bad = 0 /\ kills.loaded /\ rounds.loaded
    IN [df_kills |-> IF assign THEN AssignRounds(kills, rounds) ELSE kills,
        df_damages |-> damages, df_rounds |-> rounds, df_ticks |-> ticks,
        success |-> d.bad = 0]

\* get_player_statistics on the tables of a parser
StatsOf(op, kills, damages, rounds) ==
    IF ~kills.loaded \/ ~damages.loaded THEN Raised(op, <<>>, "ValueError")
    ELSE Returned(op, <<>>,
             PlayerStatistics(kills, damages, IF rounds.loaded THEN Len(rounds.rows) ELSE 1))

\* a slip: the statistics asked for whatever parse_demo returned
quick_parse_unchecked(d) ==
    LET parser == ParsedParser(d)
    IN StatsOf("quick_parse", parser.df_kills, parser.df_damages, parser.df_rounds)

quick_parse(d) ==
    LET parser == ParsedParser(d)
    IN IF parser.success
       THEN StatsOf("quick_parse", parser.df_kills, parser.df_damages, parser.df_rounds)
       ELSE Returned("quick_parse", <<>>, <<>>)

QuickParse ==
    /\ result' = quick_parse(demo)
    /\ UNCHANGED <<demo, df_kills, df_damages, df_rounds, df_ticks, round_mapping,
                   calculator, rating_input, matches, session_state, uploaded_file>>

\* a slip: no except clause, the ValueError reaches the caller
calculate_ratings_uncaught(kills, damages, rounds, k_factor) ==
    LET player_stats == StatsOf("calculate_ratings_from_parser", kills, damages, rounds)
    IN IF player_stats.raised = "ValueError" THEN player_stats
       ELSE Returned("calculate_ratings_from_parser", <<>>,
                CopyOf(update_ratings(<<>>, player_stats.value, k_factor,
                                      Calculator(k_factor).base_rating)))

calculate_ratings_from_parser(kills, damages, rounds, k_factor) ==
    LET player_stats == StatsOf("calculate_ratings_from_parser", kills, damages, rounds)
    IN IF player_stats.raised = "ValueError"
       THEN Returned("calculate_ratings_from_parser", <<>>, CopyOf(<<>>))
       ELSE Returned("calculate_ratings_from_parser", <<>>,
                CopyOf(update_ratings(<<>>, player_stats.value, k_factor,
                                      Calculator(k_factor).base_rating)))

CalculateRatingsFromParser ==
    /\ result' = calculate_ratings_from_parser(df_kills, df_damages, df_rounds, KFactor)
    /\ UNCHANGED <<demo, df_kills, df_damages, df_rounds, df_ticks, round_mapping,
                   calculator, rating_input, matches, session_state, uploaded_file>>

\* Files whose kill table has or lacks the optional columns, failing at any
\* extraction or at none.  A plain kill is unassisted, a fancy one a headshot
\* with the other weapon and an assist.
WeaponKill(attacker, victim, fancy) ==
    [tick |-> 300, attacker_name |-> attacker, user_name |-> victim,
     assister_name |-> IF fancy THEN victim ELSE NoName, headshot |-> fancy, round |-> 0,
     weapon |-> IF fancy THEN "awp" ELSE "ak47"]

PrereqKills == {WeaponKill("A", "B", f) : f \in BOOLEAN} \cup {WeaponKill("B", "A", f) : f \in BOOLEAN}

PrereqDemos ==
    {[Demo(k, <<Damage("A", 40)>>, TwoRounds, <<>>, bad) EXCEPT !.kills = Table(cols, k)] :
        k \in SeqsUpTo(PrereqKills, PrereqMaxKills),
        cols \in SUBSET {"assister_name", "weapon"},
        bad \in 0..NumExtractions}

InitPrereq == demo \in PrereqDemos /\ Constructed /\ NoRating /\ NoSession

NextPrereq ==
    \/ ParseDemo
    \/ GetPlayerStatistics
    \/ GetMultiKills
    \/ GetRoundByRoundStats
    \/ GetPerformanceTrends
    \/ GetWeaponUsageStats
    \/ QuickParse
    \/ CalculateRatingsFromParser

SpecPrereq == InitPrereq /\ [][NextPrereq]_vars

----------------------------------------------------------------------------
(* Properties of the parser's prerequisites and optional columns *)

TablesMissing == ~df_kills.loaded \/ ~df_damages.loaded

\* C21: get_player_statistics raises ValueError exactly when the kill or the
\* damage table is None, it raises nothing else, and it changes no table of
\* the parser; calculate_ratings_from_parser never raises: it returns {} when
\* the tables are missing and a rating for every player of the stat table
\* otherwise.
C21_ValueErrorIffTablesMissing ==
    [][/\ result'.op = "get_player_statistics" =>
            /\ (result'.raised = "ValueError") <=> TablesMissing
            /\ result'.raised \in {"", "ValueError"}
            /\ UNCHANGED <<df_kills, df_damages, df_rounds, df_ticks, round_mapping>>
       /\ result'.op = "calculate_ratings_from_parser" =>
            /\ result'.raised = ""
            /\ TablesMissing => result'.value.ratings = <<>>
            /\ ~TablesMissing =>
                  RatedPlayers(result'.value.ratings) = StatIndex(df_kills, df_damages)
            /\ UNCHANGED <<df_kills, df_damages, df_rounds, df_ticks, round_mapping>>
      ]_vars

\* the damage extraction failed: the kill table is set, the damage table is
\* not, and calculate_ratings_from_parser returned {}
C21_Witness ==
    /\ result.op = "calculate_ratings_from_parser"
    /\ df_kills.loaded /\ df_kills.rows # <<>> /\ ~df_damages.loaded
    /\ result.raised = ""
    /\ result.value.ratings = <<>>

NoRoundColumn == ~df_kills.loaded \/ "round" \notin df_kills.cols

WithAssisterColumn(kills) == [kills EXCEPT !.cols = @ \cup {"assister_name"}]

\* C22: with no assister column every row of get_player_statistics has
\* assists = 0 and every other field as with the column; with no round column
\* get_multi_kills returns {} and get_round_by_round_stats and
\* get_performance_trends return empty tables; with no weapon column
\* get_weapon_usage_stats returns an empty table; none of these calls raises.
C22_AbsentColumns ==
    /\ (StatsReturned /\ "assister_name" \notin df_kills.cols) =>
          \A i \in DOMAIN result.value :
              /\ result.value[i].assists = Flt(0)
              /\ result.value[i] =
                    [StatRow(result.value[i].player_name, WithAssisterColumn(df_kills),
                             df_damages, TotalRounds) EXCEPT !.assists = Flt(0)]
    /\ (result.op \in {"get_multi_kills", "get_round_by_round_stats", "get_performance_trends"}
        /\ NoRoundColumn) =>
          result.raised = "" /\ result.value = <<>>
    /\ (result.op = "get_weapon_usage_stats"
        /\ (~df_kills.loaded \/ "weapon" \notin df_kills.cols)) =>
          result.raised = "" /\ result.value = <<>>

\* a parsed file with kills but neither an assister nor a weapon column, and
\* the stat table computed from it
C22_Witness ==
    /\ StatsReturned
    /\ df_kills.cols = {"round"}
    /\ Len(df_kills.rows) = 2
    /\ \E i \in DOMAIN result.value :
          result.value[i].kills = Flt(2) /\ result.value[i].assists = Flt(0)

\* parse_demo has been called on this parser and returned True
ParseReturnedTrue == demo.bad = 0 /\ df_kills.loaded

\* parse_demo has been called and got past the kill and damage extractions
ParseReachedRounds == demo.bad \in {0, 3, 4} /\ df_kills.loaded

\* what quick_parse owes: the stat table of the file when it decodes, else an
\* empty table
QuickParseExpected ==
    IF demo.bad = 0
    THEN Returned("quick_parse", <<>>,
             PlayerStatistics(AssignRounds(demo.kills, demo.rounds), demo.damages,
                              Len(demo.rounds.rows)))
    ELSE Returned("quick_parse", <<>>, <<>>)

\* C26 as stated: get_player_statistics returns a table only after a
\* parse_demo call that returned True and raises ValueError otherwise;
\* quick_parse returns the stat table when parse_demo returns True and an
\* empty table otherwise.
C26_AsStated ==
    /\ result.op = "get_player_statistics" =>
          /\ (result.raised = "") <=> ParseReturnedTrue
          /\ result.raised \in {"", "ValueError"}
    /\ result.op = "quick_parse" => result = QuickParseExpected

\* C26 amended: get_player_statistics returns a table exactly after a
\* parse_demo call that set the kill and the damage table, whether it then
\* returned True or failed at the round-end or tick extraction; quick_parse as
\* stated.
C26_AfterKillsAndDamages ==
    /\ result.op = "get_player_statistics" =>
          /\ (result.raised = "") <=> ParseReachedRounds
          /\ result.raised \in {"", "ValueError"}
    /\ result.op = "quick_parse" => result = QuickParseExpected

\* parse_demo failed at the round-end extraction and the stat table was
\* returned all the same
C26_Witness ==
    /\ StatsReturned
    /\ demo.bad = 3
    /\ ~df_rounds.loaded
    /\ result.value # <<>>

----------------------------------------------------------------------------
(* The read-only calls on a parsed demo *)

FrameMaxKills == 2

\* kills in round 1 and round 2 of a two-round file, position samples or none
FrameKillRows ==
    {Kill(t, a, IF a = "B" THEN "A" ELSE "B", NoName, FALSE) : t \in {150, 300}, a \in PlayerNames}

FrameDemos ==
    {Demo(k, <<Damage("A", 40)>>, TwoRounds, t, bad) :
        k \in SeqsUpTo(FrameKillRows, FrameMaxKills),
        t \in {<<>>, <<Sample(160, "A")>>},
        bad \in {0, 3}}

\* what main hands to generate_rating_report: the parser's stat table and
\* multi-kill dictionary
ReportInput(d) ==
    LET parser == ParsedParser(d)
    IN [stats |-> StatsOf("get_player_statistics", parser.df_kills, parser.df_damages,
                          parser.df_rounds).value,
        multikills |-> IF "round" \in parser.df_kills.cols THEN MultiKills(parser.df_kills)
                       ELSE <<>>]

InitFrame ==
    /\ demo \in FrameDemos
    /\ Constructed
    /\ calculator = Calculator(Weights(30, 15, 25))
    /\ rating_input = ReportInput(demo)
    /\ NoSession

NextFrame ==
    \/ ParseDemo
    \/ GetPlayerStatistics
    \/ GetMultiKills
    \/ GetRoundByRoundStats
    \/ GetPerformanceTrends
    \/ GetPositionsForHeatmap
    \/ GenerateRatingReport

SpecFrame == InitFrame /\ [][NextFrame]_vars

ReadOnlyCalls ==
    {"get_player_statistics", "get_multi_kills", "get_round_by_round_stats",
     "get_performance_trends", "get_positions_for_heatmap", "generate_rating_report"}

\* C24: a call of get_player_statistics, get_multi_kills,
\* get_round_by_round_stats, get_performance_trends, get_positions_for_heatmap
\* or generate_rating_report leaves the parser's kill, damage, round and
\* position tables and the stat table handed to generate_rating_report as
\* they were, and a call repeated with the same arguments gives the same
\* result.
C24_ReadOnly ==
    [][result'.op \in ReadOnlyCalls =>
          /\ UNCHANGED <<df_kills, df_damages, df_rounds, df_ticks, round_mapping,
                         rating_input>>
          /\ (result.op = result'.op /\ result.args = result'.args) => result' = result
      ]_vars

\* a parsed two-round file with a double kill, after its rating report was made
C24_Witness ==
    /\ result.op = "generate_rating_report"
    /\ result.raised = ""
    /\ Len(result.value) = 2
    /\ "round" \in df_kills.cols
    /\ DOMAIN rating_input.multikills # {}
    /\ df_ticks.rows # <<>>
    /\ \A i \in DOMAIN rating_input.stats :
          rating_input.stats[i] =
              StatRow(rating_input.stats[i].player_name, df_kills, df_damages, TotalRounds)

----------------------------------------------------------------------------
(* The application: main and parse_demo_file *)

AppMaxKills == 1

\* An uploaded file: its kill events, the extraction at which parse_demo
\* fails on it (0: none), and the step of parse_demo_file that raises on it:
\* "init" (CS2DemoParser(...)), "stats" (get_player_statistics) or none ("").
File(kills, bad, raises) ==
    [present |-> TRUE, name |-> "temp_demo.dem", raises |-> raises, bad |-> bad,
     kills |-> kills]

AppKillRows == {Kill(300, "A", "B", NoName, FALSE), Kill(300, "B", "A", NoName, TRUE)}

AppFiles ==
    {File(k, bad, raises) :
        k \in SeqsUpTo(AppKillRows, AppMaxKills),
        bad \in 0..NumExtractions,
        raises \in {"", "init", "stats"}}

FileDemo(f) == Demo(f.kills, <<Damage("A", 40)>>, TwoRounds, <<>>, f.bad)

\* the parser object kept in the session, with the file it was built from
SessionParser(f, parser) ==
    [set |-> TRUE, source |-> f, df_kills |-> parser.df_kills,
     df_damages |-> parser.df_damages, df_rounds |-> parser.df_rounds,
     df_ticks |-> parser.df_ticks]

SessionStats(parser) ==
    StatsOf("get_player_statistics", parser.df_kills, parser.df_damages, parser.df_rounds)

\* a slip: demo_parsed set before the statistics are computed
parse_demo_file_flag_first(session, f) ==
    IF f.raises = "init" THEN session
    ELSE LET parser == ParsedParser(FileDemo(f))
             stats == SessionStats(parser)
             stored == [session EXCEPT !.parser = SessionParser(f, parser),
                                       !.demo_parsed = TRUE]
         IN IF ~parser.success THEN session
            ELSE IF f.raises = "stats" \/ stats.raised # "" THEN stored
            ELSE [stored EXCEPT !.stats = [set |-> TRUE, rows |-> stats.value]]

\* parse_demo_file: session_state after the call; every exception is caught
parse_demo_file(session, f) ==
    IF f.raises = "init" THEN session
    ELSE LET parser == ParsedParser(FileDemo(f))
             stats == SessionStats(parser)
             stored == [session EXCEPT !.parser = SessionParser(f, parser)]
         IN IF ~parser.success THEN session
            ELSE IF f.raises = "stats" \/ stats.raised # "" THEN stored
            ELSE [stored EXCEPT !.stats = [set |-> TRUE, rows |-> stats.value],
                                !.demo_parsed = TRUE]

\* the analysis branch of main: rated_stats from the session's stats and the
\* parser's multi-kills; an error of generate_rating_report ends the rerun
Analyse(session) ==
    LET multikills == IF "round" \in session.parser.df_kills.cols
                      THEN MultiKills(session.parser.df_kills) ELSE <<>>
    IN IF RankCastFails(session.stats.rows, multikills) THEN session
       ELSE [session EXCEPT
                !.rated_stats = [set |-> TRUE,
                                 rows |-> RatingReport(session.stats.rows, multikills)]]

\* one rerun of main with f in the file uploader
SessionAfterMain(session, f) ==
    IF ~f.present THEN session
    ELSE LET parsed == IF ~session.demo_parsed \/ ~session.parser.set
                       THEN parse_demo_file(session, f) ELSE session
         IN IF parsed.demo_parsed /\ parsed.parser.set THEN Analyse(parsed) ELSE parsed

Main ==
    /\ \E f \in AppFiles \cup {NoFile} :
          /\ uploaded_file' = f
          /\ session_state' = SessionAfterMain(session_state, f)
          /\ result' = Returned("main", <<>>,
                           f.present /\ SessionAfterMain(session_state, f).demo_parsed)
    /\ UNCHANGED <<demo, df_kills, df_damages, df_rounds, df_ticks, round_mapping,
                   calculator, rating_input, matches>>

InitApp ==
    /\ demo = Demo(<<>>, <<>>, <<>>, <<>>, 0)
    /\ Constructed
    /\ NoRating
    /\ NoSession

NextApp == Main

SpecApp == InitApp /\ [][NextApp]_vars

----------------------------------------------------------------------------
(* Properties of the application's session *)

Parses(f) == f.present /\ f.bad = 0 /\ f.raises = ""

\* C25 as stated: after a rerun with a file in the uploader that parses, the
\* session's parser and stats are those of that file, whatever was parsed on
\* earlier reruns.
C25_AsStated ==
    Parses(uploaded_file) =>
        /\ session_state.demo_parsed
        /\ session_state.parser.source = uploaded_file
        /\ session_state.stats.rows = SessionStats(ParsedParser(FileDemo(uploaded_file))).value

\* C28: demo_parsed = True implies that parser and stats are set and that
\* stats is the stat table of that parser.
C28_ParsedImpliesParserAndStats ==
    session_state.demo_parsed =>
        /\ session_state.parser.set
        /\ session_state.stats.set
        /\ session_state.stats.rows = SessionStats(session_state.parser).value
        /\ SessionStats(session_state.parser).raised = ""

\* a file was parsed and rated on an earlier rerun, and on the last rerun the
\* uploader held a file on which get_player_statistics raises
C28_Witness ==
    /\ session_state.demo_parsed
    /\ session_state.stats.rows # <<>>
    /\ session_state.rated_stats.set
    /\ uploaded_file.present /\ uploaded_file.bad = 0 /\ uploaded_file.raises = "stats"

====
